---- MODULE Spec2Model ----
(***************************************************************************)
(* Model of two reconstruction modules of coresoftware:                    *)
(*   - SecondaryVertexFinder (offline/packages/trackreco)                  *)
(*   - TpcDirectLaserReconstruction (offline/packages/tpccalib)            *)
(*                                                                         *)
(* Numbers.  The C++ code computes in float/double.  The model computes in *)
(* integers: lengths are counted in ticks (the tick of every component is  *)
(* given where its constants are defined), comparisons between a norm and  *)
(* a bound are done exactly on the squares, and a quantity that needs a    *)
(* square root or a quotient is kept in fixed point (FP units per tick,    *)
(* rounded).  A quotient by zero and every value computed from it is not   *)
(* a number: it is carried as a nan flag next to the value, so that a NaN  *)
(* compares false with every bound, as in IEEE arithmetic.                 *)
(***************************************************************************)
EXTENDS Integers, Sequences, FiniteSets, TLC

VARIABLES
    cc_args,    \* circle_circle_intersection: the arguments of the call
    cc_res,     \* circle_circle_intersection: return value and output vector
    pca_args,   \* findPcaTwoLines / dcaTwoLines: the arguments of the call
    pca_res,    \* findPcaTwoLines / dcaTwoLines: dca, PCA1, PCA2 after the call
    svf_event,  \* SecondaryVertexFinder: the nodes and settings of one event
    svf_out,    \* SecondaryVertexFinder: what process_event did with it
    m_total_hits,         \* TpcDirectLaserReconstruction: the hits looked at
    m_matched_hits,       \* the hits associated with a track
    m_accepted_clusters,  \* the layers accumulated in the grid
    m_matrix_container,   \* the grid of matrices
    laser_cfg,  \* the settings of the module and what the build does
    laser_run,  \* where the module is in its life, and the last event's log
    cell_args,  \* get_cell_index: the grid and the position
    cell_res,   \* get_cell_index: the index and the bins
    grid_args,  \* add_to_lhs: a grid, a cell and two values
    grid_res,   \* add_to_lhs: the grids after the calls
    geom_args,  \* delta_phi / line_circle_intersection: the arguments
    geom_res,   \* delta_phi / line_circle_intersection: what is returned
    node_args,  \* a module, the nodes of the node tree and the settings
    node_res,   \* what the module did on these nodes
    loop,       \* process_event taken loop iteration by loop iteration
    trk_args,   \* process_tracks: the settings, the tracks and the hits
    trk_res     \* process_tracks: what it leaves, for each order of the tracks

ccVars == <<cc_args, cc_res>>
pcaVars == <<pca_args, pca_res>>
svfVars == <<svf_event, svf_out>>
laserVars == <<m_total_hits, m_matched_hits, m_accepted_clusters,
               m_matrix_container, laser_cfg, laser_run>>
cellVars == <<cell_args, cell_res>>
gridVars == <<grid_args, grid_res>>
geomVars == <<geom_args, geom_res>>
nodeVars == <<node_args, node_res>>
trkVars == <<trk_args, trk_res>>
vars == <<cc_args, cc_res, pca_args, pca_res, svf_event, svf_out,
          m_total_hits, m_matched_hits, m_accepted_clusters,
          m_matrix_container, laser_cfg, laser_run,
          cell_args, cell_res, grid_args, grid_res, geom_args, geom_res,
          node_args, node_res, loop, trk_args, trk_res>>

(***************************************************************************)
(* Arithmetic helpers                                                      *)
(***************************************************************************)
Abs(x) == IF x < 0 THEN -x ELSE x

Sq(x) == x * x

\* quotient rounded to the nearest integer (b # 0), ties away from -infinity
RDiv(a, b) == IF b > 0 THEN (2 * a + b) \div (2 * b)
                       ELSE (2 * (-a) + (-b)) \div (2 * (-b))

RECURSIVE SqrtIter(_, _, _)
SqrtIter(n, lo, hi) ==
    \* invariant: lo*lo <= n < hi*hi
    IF hi - lo <= 1 THEN lo
    ELSE LET mid == (lo + hi) \div 2
         IN  IF mid * mid <= n THEN SqrtIter(n, mid, hi)
                               ELSE SqrtIter(n, lo, mid)

\* floor of the square root of n >= 0 (n < 2^30)
Sqrt(n) == SqrtIter(n, 0, 32768)

\* fixed-point units per tick
FP == 1000

\* 3-vectors are triples
Dot(u, v) == u[1] * v[1] + u[2] * v[2] + u[3] * v[3]

Cross(u, v) == <<u[2] * v[3] - u[3] * v[2],
                 u[3] * v[1] - u[1] * v[3],
                 u[1] * v[2] - u[2] * v[1]>>

VSub(u, v) == <<u[1] - v[1], u[2] - v[2], u[3] - v[3]>>

Zero3 == <<0, 0, 0>>

(***************************************************************************)
(* SecondaryVertexFinder::circle_circle_intersection                       *)
(* tick = 0.1 cm; the points pushed to intersectionXY are in fixed point   *)
(* (FP units per tick).                                                    *)
(***************************************************************************)
\* double dr = 0.2;  // 2 mm        (in ticks)
dr == 2

\* mutation: d < (r1-r0), the fabs forgotten
OneInsideOther_NoFabs(r0, r1, d2) == (r1 - r0 > 0) /\ d2 < Sq(r1 - r0)

\* d < fabs(r1-r0), with d = (p0 - p1).norm()
OneInsideOther(r0, r1, d2) == d2 < Sq(r1 - r0)

\* d > r0+r1
Disjoint(r0, r1, d2) == (r0 + r1 < 0) \/ d2 > Sq(r0 + r1)

\* fabs(d - (r0+r1)) < dr, evaluated where d > r0+r1 holds
BarelyTouching(r0, r1, d2) == (r0 + r1 + dr > 0) /\ d2 < Sq(r0 + r1 + dr)

\* mutation: PCA1 taken along u0 instead of u1 (the far side of circle 1)
TouchingPCA_FarSide(r0, x0, y0, r1, x1, y1) ==
    LET d2   == Sq(x1 - x0) + Sq(y1 - y0)
        dF   == Sqrt(d2 * FP * FP)
        u0x  == RDiv((x1 - x0) * FP * FP, dF)
        u0y  == RDiv((y1 - y0) * FP * FP, dF)
        P0x  == x0 * FP + u0x * r0
        P0y  == y0 * FP + u0y * r0
        P1x  == x1 * FP + u0x * r1
        P1y  == y1 * FP + u0y * r1
    IN  <<RDiv(P0x + P1x, 2), RDiv(P0y + P1y, 2)>>

\* the special case: midpoint of the closest points of the two circles
TouchingPCA(r0, x0, y0, r1, x1, y1) ==
    LET d2   == Sq(x1 - x0) + Sq(y1 - y0)
        dF   == Sqrt(d2 * FP * FP)               \* u0.norm(), fixed point
        u0x  == RDiv((x1 - x0) * FP * FP, dF)    \* u0 /= u0.norm()
        u0y  == RDiv((y1 - y0) * FP * FP, dF)
        u1x  == RDiv((x0 - x1) * FP * FP, dF)
        u1y  == RDiv((y0 - y1) * FP * FP, dF)
        P0x  == x0 * FP + u0x * r0               \* PCA0 = p0 + u0 * r0
        P0y  == y0 * FP + u0y * r0
        P1x  == x1 * FP + u1x * r1               \* PCA1 = p1 + u1 * r1
        P1y  == y1 * FP + u1y * r1
    IN  <<RDiv(P0x + P1x, 2), RDiv(P0y + P1y, 2)>>

\* the general case: the two intersection points x3a,y3a,x3b,y3b
TwoPoints(r0, x0, y0, r1, x1, y1) ==
    LET d2   == Sq(x1 - x0) + Sq(y1 - y0)
        dF   == Sqrt(d2 * FP * FP)
        \* a = (r0*r0-r1*r1+d*d)/(2*d)
        aF   == RDiv((Sq(r0) - Sq(r1) + d2) * FP * FP, 2 * dF)
        h2   == Sq(r0 * FP) - Sq(aF)
        \* h = sqrt(r0*r0 - a*a)
        hF   == Sqrt(h2)
        x2   == x0 * FP + RDiv(aF * (x1 - x0) * FP, dF)
        y2   == y0 * FP + RDiv(aF * (y1 - y0) * FP, dF)
        hx   == RDiv(hF * (y1 - y0) * FP, dF)
        hy   == RDiv(hF * (x1 - x0) * FP, dF)
    IN  IF dF = 0 \/ h2 < 0
        THEN [nan |-> TRUE, divzero |-> (dF = 0), xy |-> <<0, 0, 0, 0>>]
        ELSE [nan |-> FALSE, divzero |-> FALSE,
              xy |-> <<x2 + hx, y2 - hy, x2 - hx, y2 + hy>>]

\* returns [ret, intersectionXY, nan, divzero]: nan is TRUE when the pushed
\* coordinates are NaN, divzero when the call divided by d = 0
circle_circle_intersection(r0, x0, y0, r1, x1, y1, intersectionXY) ==
    LET d2 == Sq(x0 - x1) + Sq(y0 - y1)
        no == [ret |-> FALSE, intersectionXY |-> intersectionXY,
               nan |-> FALSE, divzero |-> FALSE]
    IN  IF OneInsideOther(r0, r1, d2) THEN no
        ELSE IF Disjoint(r0, r1, d2)
        THEN IF BarelyTouching(r0, r1, d2)
             THEN [ret |-> TRUE,
                   intersectionXY |->
                       intersectionXY \o TouchingPCA(r0, x0, y0, r1, x1, y1),
                   nan |-> FALSE, divzero |-> FALSE]
             ELSE no
        ELSE LET p == TwoPoints(r0, x0, y0, r1, x1, y1)
             IN  [ret |-> TRUE,
                  intersectionXY |-> intersectionXY \o p.xy,
                  nan |-> p.nan, divzero |-> p.divzero]

(***************************************************************************)
(* SecondaryVertexFinder::findPcaTwoLines and ::dcaTwoLines                *)
(* Positions are in ticks of 0.1 cm; dca, PCA1 and PCA2 are in fixed point *)
(* (FP units per tick).  Directions are integer vectors: the quantities    *)
(* the code forms from the unit vectors b = mom/|mom| are homogeneous in   *)
(* the norms, which cancel in dca, c*b1 and d*b2, so the model forms them  *)
(* from the integer vectors and keeps the code's tests and quotients.      *)
(***************************************************************************)
\* dca = 999;   (cm: 9990 ticks, in fixed point)
DcaSentinel == 9990 * FP

\* mutation: only identical direction vectors are taken as the same track
SameDirection_Identical(b1, b2) == b1 = b2

\* mag_bcrossb != 0 is false: bcrossb = b1.cross(b2) has norm zero
SameDirection(b1, b2) == Cross(b1, b2) = Zero3

\* the body shared by findPcaTwoLines (after normalising the momenta) and
\* dcaTwoLines.  dca, PCA1, PCA2 are the caller's values on entry.
\* Result: dca, PCA1, PCA2 on return; nan = dca or the PCAs are not numbers;
\* divCross / divDot = a division by mag_bcrossb / by b2.dot(b1) was executed;
\* divZero = one of the executed divisions had a zero divisor.
TwoLines(a1, b1, a2, b2, dca, PCA1, PCA2) ==
    LET bcrossb  == Cross(b1, b2)
        mag2     == Dot(bcrossb, bcrossb)
        aminusa  == VSub(a2, a1)
        b2b1     == Dot(b2, b1)
        \* c = Y/X with X = b1.b2 - b1.b1*b2.b2/b2.b1 and
        \*              Y = (a2-a1).b2 - (a2-a1).b1*b2.b2/b2.b1
        \* multiplied through by b2.b1:  c = cNum / cDen
        cNum     == Dot(aminusa, b2) * b2b1 - Dot(aminusa, b1) * Dot(b2, b2)
        cDen     == Sq(b2b1) - Dot(b1, b1) * Dot(b2, b2)
        \* d = c*F + G with F = b1.b1/b2.b1, G = -(a2-a1).b1/b2.b1
        \*   = (cNum*b1.b1 - (a2-a1).b1*cDen) / (cDen*b2.b1)
        dNum     == cNum * Dot(b1, b1) - Dot(aminusa, b1) * cDen
        dDen     == cDen * b2b1
    IN  IF SameDirection(b1, b2)
        THEN \* return;   // same track, skip combination
             [dca |-> DcaSentinel, PCA1 |-> PCA1, PCA2 |-> PCA2,
              dcaNan |-> FALSE, pcaNan |-> FALSE,
              divCross |-> FALSE, divDot |-> FALSE, divZero |-> FALSE]
        ELSE LET pcaBad == (b2b1 = 0 \/ cDen = 0)
             IN  [dca |-> IF mag2 = 0 THEN 0
                          ELSE RDiv(Dot(bcrossb, aminusa) * FP * FP,
                                    Sqrt(mag2 * FP * FP)),
                  dcaNan |-> (mag2 = 0),
                  divCross |-> TRUE, divDot |-> TRUE,
                  divZero |-> (mag2 = 0 \/ pcaBad),
                  pcaNan |-> pcaBad,
                  PCA1 |-> IF pcaBad THEN Zero3
                           ELSE [i \in 1..3 |->
                                   a1[i] * FP + RDiv(cNum * b1[i] * FP, cDen)],
                  PCA2 |-> IF pcaBad THEN Zero3
                           ELSE [i \in 1..3 |->
                                   a2[i] * FP + RDiv(dNum * b2[i] * FP, dDen)]]

\* findPcaTwoLines: b1 = mom1/mom1.norm(), b2 = mom2/mom2.norm(); a momentum
\* of norm zero makes every component of b, hence of everything after, NaN
findPcaTwoLines(pos1, mom1, pos2, mom2, dca, PCA1, PCA2) ==
    IF mom1 = Zero3 \/ mom2 = Zero3
    THEN [dca |-> 0, PCA1 |-> Zero3, PCA2 |-> Zero3,
          dcaNan |-> TRUE, pcaNan |-> TRUE,
          divCross |-> TRUE, divDot |-> TRUE, divZero |-> TRUE]
    ELSE TwoLines(pos1, mom1, pos2, mom2, dca, PCA1, PCA2)

\* dcaTwoLines: the directions are used as passed; the returned dca is the
\* value of the local dca (999 on the early return)
dcaTwoLines(a1, b1, a2, b2, PCA1, PCA2) ==
    TwoLines(a1, b1, a2, b2, DcaSentinel, PCA1, PCA2)

(***************************************************************************)
(* SecondaryVertexFinder::process_event and the methods it calls           *)
(* Lengths are in ticks of 0.1 cm, computed lengths in fixed point.        *)
(* A track is a record                                                     *)
(*   vertex_id, charge, quality, silicon (has a silicon seed),             *)
(*   ntpc (cluster keys of the TPC seed), pos, mom (track state),          *)
(*   nclus, nclus_noINTT (clusters getTrackletClusters finds, and those    *)
(*   of them that are not INTT), circle (what circle_fit_by_taubin gives   *)
(*   for the clusters: R, X0, Y0), proj (what the Acts propagation to a    *)
(*   cylinder gives: ok, pos, mom).                                        *)
(* The vertex map is a function from the vertex ids it holds to records    *)
(*   pos, size_tracks.                                                     *)
(* The circle fit and the propagation are collaborators outside the        *)
(* module: their results are inputs of the event.                          *)
(***************************************************************************)

\* SecondaryVertexFinder::hasSiliconSeed
hasSiliconSeed(tr) == tr.silicon

\* SecondaryVertexFinder::get_dca.  dca3dxy is set to NAN first; when the
\* vertex is not found the function returns with dca3dxy NaN and dca3dz not
\* written: the caller's uninitialised float, whose value is  uninit.
get_dca(track, vertex_map, uninit) ==
    IF track.vertex_id \notin DOMAIN vertex_map
    THEN [dca3dxy |-> 0, xyNan |-> TRUE, dca3dz |-> uninit, zUninit |-> TRUE]
    ELSE LET vertex == vertex_map[track.vertex_id].pos
             pos    == VSub(track.pos, vertex)
             px     == track.mom[1]
             py     == track.mom[2]
             pT2    == Sq(px) + Sq(py)
             \* r = mom.cross(0,0,1) = (py, -px, 0);  phi = atan2(r(1), r(0))
             \* pos_R(0) = cos(phi)*pos(0) - sin(phi)*pos(1)
             posR0  == IF pT2 = 0 THEN pos[1] * FP
                       ELSE RDiv((py * pos[1] + px * pos[2]) * FP * FP,
                                 Sqrt(pT2 * FP * FP))
         IN  [dca3dxy |-> posR0, xyNan |-> FALSE,
              dca3dz |-> pos[3] * FP, zUninit |-> FALSE]

\* mutation: the message of the check taken at its word (skip on NaN)
DcaCheckSkips_IsNan(dca) == dca.xyNan

\* if(!dca3dxy1) { " get_dca returned NAN " ; continue; }
\* a float converts to true unless it is zero; NaN is not zero
DcaCheckSkips(dca) == ~dca.xyNan /\ dca.dca3dxy = 0

\* fabs(dca3dxy) < _track_dcaxy_cut or fabs(dca3dz) < _track_dcaz_cut;
\* a NaN compares false
BelowTrackDcaCuts(dca, cfg) ==
    \/ (~dca.xyNan /\ Abs(dca.dca3dxy) < cfg.track_dcaxy_cut * FP)
    \/ Abs(dca.dca3dz) < cfg.track_dcaz_cut * FP

\* the cuts applied to a track of either loop after the seed requirement:
\* quality, number of TPC clusters, impact parameters
TrackCutsSkip(tr, dca, cfg) ==
    \/ tr.quality > cfg.qual_cut
    \/ tr.ntpc < 20
    \/ DcaCheckSkips(dca)
    \/ BelowTrackDcaCuts(dca, cfg)

\* SecondaryVertexFinder::fitClusters.  The two "too few clusters" returns
\* are inside  if(Verbosity() > 0) : with verbosity 0 the fits run on the
\* clusters there are.  A fit of fewer than 3 points gives no circle: its
\* parameters are carried as NaN.
fitClusters(tracklet, verbosity) ==
    IF tracklet.nclus < 3 /\ verbosity > 0
    THEN [size |-> 0, nan |-> FALSE, circle |-> tracklet.circle, fitted |-> 0]
    ELSE IF tracklet.nclus_noINTT < 3 /\ verbosity > 0
    THEN [size |-> 0, nan |-> FALSE, circle |-> tracklet.circle,
          fitted |-> tracklet.nclus]
    ELSE [size |-> 5, nan |-> (tracklet.nclus < 3),
          circle |-> tracklet.circle, fitted |-> tracklet.nclus]

\* a point of the transverse plane: nan, or x and y in fixed point
Pt(x, y) == [nan |-> FALSE, x |-> x, y |-> y]

PtNan == [nan |-> TRUE, x |-> 0, y |-> 0]

\* what findTwoTrackIntersection hands back from the result  cci  of
\* circle_circle_intersection: intersect1, and intersect2 when there are
\* four coordinates
IntersectionPoints(cci, uninit) ==
    IF ~cci.ret
    THEN [ret |-> FALSE, npoints |-> 0, intersect1 |-> uninit,
          intersect2 |-> uninit]
    ELSE IF cci.nan
    THEN [ret |-> TRUE, npoints |-> 2, intersect1 |-> PtNan,
          intersect2 |-> PtNan]
    ELSE [ret |-> TRUE, npoints |-> Len(cci.intersectionXY) \div 2,
          intersect1 |-> Pt(cci.intersectionXY[1], cci.intersectionXY[2]),
          intersect2 |-> IF Len(cci.intersectionXY) = 4
                         THEN Pt(cci.intersectionXY[3], cci.intersectionXY[4])
                         ELSE uninit]

\* SecondaryVertexFinder::findTwoTrackIntersection.  intersect1, intersect2
\* are the caller's  Eigen::Vector2d intersection[2] , not initialised:
\* intersect2 keeps its value  uninit  when one point only is found.
findTwoTrackIntersection(track1, track2, verbosity, uninit) ==
    LET circle_fitpars1 == fitClusters(track1, verbosity)
        circle_fitpars2 == fitClusters(track2, verbosity)
        no == [ret |-> FALSE, npoints |-> 0, intersect1 |-> uninit,
               intersect2 |-> uninit]
    IN  IF circle_fitpars1.size = 0 THEN no
        ELSE IF circle_fitpars2.size = 0 THEN no
        ELSE IF circle_fitpars1.nan \/ circle_fitpars2.nan
        THEN \* every comparison with the NaN d is false: the general
             \* branch pushes four NaN coordinates
             [ret |-> TRUE, npoints |-> 2, intersect1 |-> PtNan,
              intersect2 |-> PtNan]
        ELSE IntersectionPoints(
                 circle_circle_intersection(
                     track1.circle.R, track1.circle.X0, track1.circle.Y0,
                     track2.circle.R, track2.circle.X0, track2.circle.Y0,
                     <<>>),
                 uninit)

\* SecondaryVertexFinder::projectTrackToCylinder: the propagation result
projectTrackToCylinder(track, vradius) == track.proj

\* mutation: the cut applied to the signed dca
FailsPairDcaCut_Signed(pca, cfg) ==
    ~pca.dcaNan /\ pca.dca > cfg.two_track_dcacut * FP

\* if(fabs(pair_dca) > _two_track_dcacut) { continue; }
FailsPairDcaCut(pca, cfg) ==
    ~pca.dcaNan /\ Abs(pca.dca) > cfg.two_track_dcacut * FP

\* path.norm() > _min_path_cut, with PCA = (PCA1+PCA2)/2 and path = PCA - VTX
PathAboveCut(pca, VTX, cfg) ==
    /\ ~pca.pcaNan
    /\ LET path == [k \in 1..3 |->
                      RDiv(pca.PCA1[k] + pca.PCA2[k], 2) - VTX[k] * FP]
       IN  Dot(path, path) > Sq(cfg.min_path_cut * FP)

\* the end of the body of  for(int i=0; i<2; ++i) , from the cut on the
\* pair dca  pca.dca  that findPcaTwoLines gave: the rows added to the
\* ntuple (none or one), and the pair dca (in  dcas )
CutAndFill(ev, id1, id2, i, pca, dca1, dca2) ==
    LET tr1   == ev.track_map[id1]
        tr2   == ev.track_map[id2]
        seen  == <<[id1 |-> id1, id2 |-> id2, i |-> i,
                    pair_dca |-> pca.dca, dcaNan |-> pca.dcaNan]>>
        \* what  _svtx_vertex_map->get(tr1 vertex id)  gives
        VTX   == IF tr1.vertex_id \in DOMAIN ev.vertex_map
                 THEN ev.vertex_map[tr1.vertex_id].pos ELSE Zero3
    IN  IF FailsPairDcaCut(pca, ev.cfg) THEN [rows |-> <<>>, dcas |-> seen]
        ELSE IF PathAboveCut(pca, VTX, ev.cfg)
        THEN [rows |-> <<[id1 |-> id1, id2 |-> id2, i |-> i,
                          pair_dca |-> pca.dca, dcaNan |-> pca.dcaNan,
                          charge1 |-> tr1.charge, charge2 |-> tr2.charge,
                          dca3d1 |-> dca1, dca3d2 |-> dca2,
                          has_silicon_1 |-> hasSiliconSeed(tr1),
                          has_silicon_2 |-> hasSiliconSeed(tr2)]>>,
               dcas |-> seen]
        ELSE [rows |-> <<>>, dcas |-> seen]

\* the body of  for(int i=0; i<2; ++i)  for the intersection  pt
ProcessIntersection(ev, id1, id2, i, pt, dca1, dca2) ==
    LET cfg   == ev.cfg
        none  == [rows |-> <<>>, dcas |-> <<>>]
        p1    == projectTrackToCylinder(ev.track_map[id1], pt)
        p2    == projectTrackToCylinder(ev.track_map[id2], pt)
    IN  \* if(intersection[i].norm() == 0) continue;
        IF ~pt.nan /\ pt.x = 0 /\ pt.y = 0 THEN none
        \* if(vradius > _max_intersection_radius) continue;
        ELSE IF ~pt.nan /\ Sq(pt.x) + Sq(pt.y) > Sq(cfg.max_intersection_radius * FP)
        THEN none
        ELSE IF ~p1.ok THEN none
        ELSE IF ~p2.ok THEN none
        \* if(fabs(vpos1(2) - vpos2(2)) > _projected_track_z_cut) continue;
        ELSE IF Abs(p1.pos[3] - p2.pos[3]) > cfg.projected_track_z_cut THEN none
        ELSE CutAndFill(ev, id1, id2, i,
                        findPcaTwoLines(p1.pos, p1.mom, p2.pos, p2.mom,
                                        0, Zero3, Zero3),
                        dca1, dca2)

\* the loop  for(int i=0; i<2; ++i)  over the two intersections  x  that
\* findTwoTrackIntersection gave
IntersectionLoop(ev, id1, id2, x, dca1, dca2) ==
    IF ~x.ret THEN [rows |-> <<>>, dcas |-> <<>>, npoints |-> 0]
    ELSE [rows |-> ProcessIntersection(ev, id1, id2, 0, x.intersect1, dca1, dca2).rows
                   \o ProcessIntersection(ev, id1, id2, 1, x.intersect2, dca1, dca2).rows,
          dcas |-> ProcessIntersection(ev, id1, id2, 0, x.intersect1, dca1, dca2).dcas
                   \o ProcessIntersection(ev, id1, id2, 1, x.intersect2, dca1, dca2).dcas,
          npoints |-> x.npoints]

\* mutation: the charges are not compared
SecondTrackSkips_AnyCharge(ev, id1, id2, dca2) ==
    \/ (ev.cfg.require_mvtx /\ ~hasSiliconSeed(ev.track_map[id2]))
    \/ TrackCutsSkip(ev.track_map[id2], dca2, ev.cfg)

\* the cuts on the second track of a pair, its impact parameters being  dca2
SecondTrackSkips(ev, id1, id2, dca2) ==
    \/ (ev.cfg.require_mvtx /\ ~hasSiliconSeed(ev.track_map[id2]))
    \/ ev.track_map[id2].charge = ev.track_map[id1].charge
    \/ TrackCutsSkip(ev.track_map[id2], dca2, ev.cfg)

\* the body of the inner loop for the pair (id1, id2), id1 having passed
\* the cuts of the outer loop
PairBody(ev, id1, id2, dca1, dca2) ==
    IF SecondTrackSkips(ev, id1, id2, dca2)
    THEN [rows |-> <<>>, dcas |-> <<>>, npoints |-> -1]
    ELSE IntersectionLoop(ev, id1, id2,
             findTwoTrackIntersection(ev.track_map[id1], ev.track_map[id2],
                                      ev.cfg.verbosity, ev.uninit_point),
             dca1, dca2)

ProcessPair(ev, id1, id2, dca1) ==
    PairBody(ev, id1, id2, dca1,
             get_dca(ev.track_map[id2], ev.vertex_map, ev.uninit_float))

\* what the pair (id1, id2) adds to the output of the event
AddPair(out, id1, id2, r) ==
    [out EXCEPT !.ntp = @ \o r.rows,
                !.dcas = @ \o r.dcas,
                !.pairs = Append(@, [id1 |-> id1, id2 |-> id2,
                                     npoints |-> r.npoints,
                                     nrows |-> Len(r.rows)])]

\* the inner loop: tr2_it from std::next(tr1_it) to the end of the map
RECURSIVE InnerLoop(_, _, _, _, _)
InnerLoop(ev, id1, id2, dca1, out) ==
    IF id2 > Len(ev.track_map) THEN out
    ELSE InnerLoop(ev, id1, id2 + 1, dca1,
                   AddPair(out, id1, id2, ProcessPair(ev, id1, id2, dca1)))

\* the outer loop.  _svtx_vertex_map->get gives a null pointer for an id the
\* map does not hold, and  svtxVertex->size_tracks()  is called on it: the
\* behaviour is undefined.  ev.null_deref is what the build does there:
\* "crash" ends the process, "zero" / "nonzero" is the value read.
RECURSIVE OuterLoop(_, _, _)
OuterLoop(ev, id1, out) ==
    IF id1 > Len(ev.track_map) THEN out
    ELSE LET cfg     == ev.cfg
             tr1     == ev.track_map[id1]
             isNull  == tr1.vertex_id \notin DOMAIN ev.vertex_map
             ntracks == IF isNull
                        THEN (IF ev.null_deref = "zero" THEN 0 ELSE 1)
                        ELSE ev.vertex_map[tr1.vertex_id].size_tracks
             dca1    == get_dca(tr1, ev.vertex_map, ev.uninit_float)
             out1    == [out EXCEPT !.null_derefs = @ + (IF isNull THEN 1 ELSE 0)]
         IN  IF isNull /\ ev.null_deref = "crash"
             THEN [out1 EXCEPT !.crashed = TRUE]
             ELSE IF \/ ntracks = 0
                     \/ (cfg.require_mvtx /\ ~hasSiliconSeed(tr1))
                     \/ TrackCutsSkip(tr1, dca1, cfg)
             THEN OuterLoop(ev, id1 + 1, out1)
             ELSE OuterLoop(ev, id1 + 1,
                            InnerLoop(ev, id1, id1 + 1, dca1, out1))

\* what process_event leaves: the rows filled into ntp (one recomass fill
\* goes with each), the pairs the inner loop looked at, the pair dcas it
\* computed, the null pointers it dereferenced
SvfOutNone == [done |-> FALSE, crashed |-> FALSE, ntp |-> <<>>,
               dcas |-> <<>>, pairs |-> <<>>, null_derefs |-> 0]

\* SecondaryVertexFinder::process_event
process_event_svf(ev) ==
    [OuterLoop(ev, 1, SvfOutNone) EXCEPT !.done = TRUE]


\* the nodes GetNodes looks for, in the order it looks for them
SvfNodes == <<"SvtxTrackMap", "TRKR_CLUSTER", "SvtxVertexMap", "ActsGeometry">>

RECURSIVE GetNodesFrom(_, _)
\* GetNodes from the k-th node on: ABORTEVENT at the first node that is
\* not found
GetNodesFrom(nodes, k) ==
    IF k > Len(SvfNodes) THEN "EVENT_OK"
    ELSE IF SvfNodes[k] \notin nodes THEN "ABORTEVENT"
    ELSE GetNodesFrom(nodes, k + 1)

\* SecondaryVertexFinder::GetNodes
GetNodes(nodes) == GetNodesFrom(nodes, 1)

\* the members InitRun writes, after the constructor
SvfConstructed == [ret |-> "none", recomass |-> FALSE, ntp |-> FALSE,
                   decaymass |-> "pions", GetNodes_calls |-> 0]

\* SecondaryVertexFinder::InitRun
InitRun(nodes, use_electrons, st) ==
    IF GetNodes(nodes) # "EVENT_OK"
    THEN [st EXCEPT !.ret = GetNodes(nodes), !.GetNodes_calls = 1]
    ELSE [st EXCEPT !.ret = GetNodes(nodes),
                    !.recomass = TRUE, !.ntp = TRUE,
                    !.decaymass = IF use_electrons THEN "electrons" ELSE @,
                    !.GetNodes_calls = 2]
(***************************************************************************)
(* TpcDirectLaserReconstruction: numbers                                   *)
(* get_cell_index and Locate narrow their arguments to float and bin them  *)
(* with float arithmetic; what they return at the edges of the grid is     *)
(* decided by the rounding.  There a number is an integer count of a unit  *)
(* that is a power of two, small enough that every double at hand is a     *)
(* whole count and every product fits:                                     *)
(*   angles  in units of 2^-24 rad  (PhiUnit per rad),                     *)
(*   radii   in units of 2^-21 cm   (RUnit per cm),                        *)
(*   z       in units of 2^-19 cm   (ZUnit per cm).                        *)
(* A float is such a count that has at most 24 significant bits.           *)
(* The geometry of process_track (intersections, distances, centroids in   *)
(* the transverse plane) is computed in fixed point, LFP units per cm.     *)
(***************************************************************************)
PhiUnit == 2^24
RUnit == 2^21
ZUnit == 2^19
LFP == 2^6

\* the significand of a float, in bits
FloatBits == 24

RECURSIVE BitLen(_)
\* the number of bits of n >= 0
BitLen(n) == IF n = 0 THEN 0 ELSE 1 + BitLen(n \div 2)

\* n >= 0 rounded to FloatBits significant bits, ties to even
RoundF(n) ==
    IF BitLen(n) <= FloatBits THEN n
    ELSE LET q    == 2^(BitLen(n) - FloatBits)
             lo   == n % q
             base == n - lo
         IN  IF 2 * lo > q \/ (2 * lo = q /\ (base \div q) % 2 = 1)
             THEN base + q ELSE base

\* (float) x : the conversion of a double to float
ToFloat(x) == IF x < 0 THEN -RoundF(-x) ELSE RoundF(x)

\* the int that  bins*f/D  gives, for the float product  P = bins*f >= 0 and
\* the float divisor D > 0: the quotient is rounded to float, then
\* truncated.  With k the integer above P/D, the floats below k are
\* 2^(e-23) apart where 2^e < k <= 2^(e+1): the quotient rounds to k when
\* it is within half of that of k.
IntOfQuotient(P, D) ==
    LET k == P \div D + 1
        e == BitLen(k - 1) - 1
    IN  IF k * D - P <= D \div 2^(FloatBits - e) THEN k ELSE k - 1

\* int i = bins*(f)/(D);  with f and D floats
FloatBin(bins, f, D) == IntOfQuotient(RoundF(bins * f), D)

\* 2.*M_PI and M_PI as doubles, in PhiUnit: 2.*M_PI is 105414357.07 units
TwoPiD == 105414357
PiD == 52707179

\* static constexpr float m_phimin = 0, m_phimax = 2.*M_PI
m_phimin == 0
m_phimax == ToFloat(TwoPiD)

\* static constexpr float m_rmin = 20, m_rmax = 78  (RUnit)
m_rmin == 20 * RUnit
m_rmax == 78 * RUnit

\* static constexpr float m_zmin = -105.5, m_zmax = 105.5  (ZUnit)
m_zmin == -211 * (ZUnit \div 2)
m_zmax == 211 * (ZUnit \div 2)

\* phi += 2.*M_PI on a float phi: the sum is taken in double and narrowed.
\* The double 2.*M_PI is a little above TwoPiD units, which decides the
\* ties: the sum is rounded in half units, from just above.
AddTwoPi(phi) ==
    IF phi + TwoPiD >= 0 THEN RoundF(2 * (phi + TwoPiD) + 1) \div 2
    ELSE -((RoundF(2 * (-(phi + TwoPiD)) - 1) + 1) \div 2)

\* phi -= 2.*M_PI on a float phi >= m_phimax
SubTwoPi(phi) == (RoundF(2 * (phi - TwoPiD) - 1) + 1) \div 2

RECURSIVE WrapUp(_)
\* while( phi < m_phimin ) phi += 2.*M_PI;
WrapUp(phi) == IF phi < m_phimin THEN WrapUp(AddTwoPi(phi)) ELSE phi

RECURSIVE WrapDown(_)
\* while( phi >= m_phimax ) phi -= 2.*M_PI;
WrapDown(phi) == IF phi >= m_phimax THEN WrapDown(SubTwoPi(phi)) ELSE phi

(***************************************************************************)
(* TpcSpaceChargeMatrixContainerv1, from its contract (spec 4.2): the      *)
(* dimensions and, per cell, the 3x3 matrix lhs (row-major, 0..8), the     *)
(* vector rhs and the number of entries.  A value of the matrices is a     *)
(* record: v in units of 1/LFP, nf when it is not finite (an infinity or   *)
(* a NaN, which every sum keeps).                                          *)
(***************************************************************************)
Num(v) == [v |-> v, nf |-> FALSE]

NotFinite == [v |-> 0, nf |-> TRUE]

NAdd(a, b) == IF a.nf \/ b.nf THEN NotFinite ELSE Num(a.v + b.v)

EmptyCell == [lhs |-> [k \in 0..8 |-> Num(0)], rhs |-> [k \in 0..2 |-> Num(0)],
              entries |-> 0]

\* set_grid_dimensions: the cells of the new grid are empty
container_set_grid_dimensions(phibins, rbins, zbins) ==
    [phibins |-> phibins, rbins |-> rbins, zbins |-> zbins,
     cells |-> [c \in 0..(phibins * rbins * zbins - 1) |-> EmptyCell]]

\* get_cell_index( iphi, ir, iz ): the flat index, -1 when a bin is not of
\* the grid
container_get_cell_index(mc, iphi, ir, iz) ==
    IF iphi < 0 \/ iphi >= mc.phibins THEN -1
    ELSE IF ir < 0 \/ ir >= mc.rbins THEN -1
    ELSE IF iz < 0 \/ iz >= mc.zbins THEN -1
    ELSE iz + mc.zbins * (ir + mc.rbins * iphi)

\* mutation: the value is stored, not accumulated
add_to_lhs_Assign(mc, cell, row, col, value) ==
    IF cell \notin DOMAIN mc.cells THEN mc
    ELSE [mc EXCEPT !.cells[cell].lhs[3 * row + col] = value]

\* add_to_lhs(cell, row, col, value): lhs(row, col) += value; no effect for
\* an invalid cell
add_to_lhs(mc, cell, row, col, value) ==
    IF cell \notin DOMAIN mc.cells THEN mc
    ELSE [mc EXCEPT !.cells[cell].lhs[3 * row + col] = NAdd(@, value)]

\* add_to_rhs(cell, row, value): rhs(row) += value
add_to_rhs(mc, cell, row, value) ==
    IF cell \notin DOMAIN mc.cells THEN mc
    ELSE [mc EXCEPT !.cells[cell].rhs[row] = NAdd(@, value)]

\* add_to_entries(cell): ++entries
add_to_entries(mc, cell) ==
    IF cell \notin DOMAIN mc.cells THEN mc
    ELSE [mc EXCEPT !.cells[cell].entries = @ + 1]

(***************************************************************************)
(* TpcDirectLaserReconstruction::get_cell_index                            *)
(***************************************************************************)
\* if( r < m_rmin || r >= m_rmax ) return -1;  and the same for z
OutOfRange(x, min, max) == x < min \/ x >= max

\* get_cell_index from the doubles it reads off the position: phi is what
\* std::atan2( global.y(), global.x() ) gives (PhiUnit), r what get_r gives
\* (RUnit), z is global.z() (ZUnit).  bins has the bins found on the way
\* (-1: not computed).
cell_index(phi, r, z, mc) ==
    LET iphi == FloatBin(mc.phibins, WrapDown(WrapUp(ToFloat(phi))) - m_phimin,
                         ToFloat(m_phimax - m_phimin))
        ir   == FloatBin(mc.rbins, ToFloat(ToFloat(r) - m_rmin),
                         ToFloat(m_rmax - m_rmin))
        iz   == FloatBin(mc.zbins, ToFloat(ToFloat(z) - m_zmin),
                         ToFloat(m_zmax - m_zmin))
    IN  IF OutOfRange(ToFloat(r), m_rmin, m_rmax)
        THEN [i |-> -1, bins |-> <<iphi, -1, -1>>]
        ELSE IF OutOfRange(ToFloat(z), m_zmin, m_zmax)
        THEN [i |-> -1, bins |-> <<iphi, ir, -1>>]
        ELSE [i |-> container_get_cell_index(mc, iphi, ir, iz),
              bins |-> <<iphi, ir, iz>>]
(***************************************************************************)
(* TpcDirectLaserReconstruction: geometry helpers                          *)
(* A position is a record x, y (fixed point, LFP per cm) and z (ZUnit).    *)
(***************************************************************************)
\* z from ZUnit to fixed point and back
ZToFp(z) == RDiv(z, ZUnit \div LFP)

FpToZ(v) == v * (ZUnit \div LFP)

\* a radius from fixed point to RUnit
FpToR(v) == v * (RUnit \div LFP)

\* get_r( x, y ) = std::sqrt( square(x) + square(y) ), in fixed point
get_r(x, y) == Sqrt(Sq(x) + Sq(y))

\* M_PI/2 and M_PI/4 (PhiUnit)
PiOver2 == TwoPiD \div 4

PiOver4 == TwoPiD \div 8

\* the arc tangent of a/b for 0 <= a <= b, b > 0 (PhiUnit), exact at 0 and
\* at 1, within 2*10^-4 rad in between:
\*   atan(t) = (pi/4) t + t (1 - t) (0.2447 + 0.0663 t)  with t in 1/4096
AtanRatio(a, b) ==
    LET t == RDiv(a * 4096, b)
    IN  (PiOver4 \div 4096) * t + ((PiOver4 % 4096) * t) \div 4096
        + ((t * (4096 - t)) \div 4096) * (1002 + (272 * t) \div 4096)

\* std::atan2( y, x ) of two finite numbers (PhiUnit), in [-pi, pi]
atan2(y, x) ==
    IF x = 0 /\ y = 0 THEN 0
    ELSE IF Abs(y) <= Abs(x)
    THEN IF x > 0
         THEN (IF y < 0 THEN -1 ELSE 1) * AtanRatio(Abs(y), Abs(x))
         ELSE (IF y < 0 THEN -1 ELSE 1) * (PiD - AtanRatio(Abs(y), Abs(x)))
    ELSE IF x >= 0
         THEN (IF y < 0 THEN -1 ELSE 1) * (PiOver2 - AtanRatio(Abs(x), Abs(y)))
         ELSE (IF y < 0 THEN -1 ELSE 1) * (PiOver2 + AtanRatio(Abs(x), Abs(y)))

\* mutation: pi itself is left as it is
delta_phi_Closed(phi) ==
    IF phi > PiD THEN phi - TwoPiD
    ELSE IF phi < -PiD THEN phi + TwoPiD
    ELSE phi

\* delta_phi: one turn is taken off at or above pi, one added below -pi
delta_phi(phi) ==
    IF phi >= PiD THEN phi - TwoPiD
    ELSE IF phi < -PiD THEN phi + TwoPiD
    ELSE phi

\* line_circle_intersection( p, d, radius ) for the circle of diameter
\* diameter (cm; the radii of a layer are whole or half cm), p and d in
\* cm.  The pair (first, second) = (tup, tdn) is in fixed point; it is
\* (-1,-1) when delta < 0.  With A = 0 also B = 0 and delta = 0: both
\* quotients are 0/0, nan.
\* Here delta4 = 4 delta, so that  tup = (-2B + sqrt(delta4)) / (4A).
line_circle_intersection(p, d, diameter) ==
    LET A      == Sq(d[1]) + Sq(d[2])
        B      == 2 * p[1] * d[1] + 2 * p[2] * d[2]
        delta4 == 4 * Sq(B) - 4 * A * (4 * Sq(p[1]) + 4 * Sq(p[2]) - Sq(diameter))
    IN  IF delta4 < 0 THEN [first |-> -LFP, second |-> -LFP, nan |-> FALSE]
        ELSE IF A = 0 THEN [first |-> 0, second |-> 0, nan |-> TRUE]
        ELSE [first  |-> RDiv(-2 * B * LFP + 2 * Sqrt(delta4 * Sq(LFP \div 2)), 4 * A),
              second |-> RDiv(-2 * B * LFP - 2 * Sqrt(delta4 * Sq(LFP \div 2)), 4 * A),
              nan    |-> FALSE]

\* const float Angle_Bins[13]: 23 pi/12, then pi/12, 3 pi/12, ..., 23 pi/12
Angle_Bins(k) ==
    IF k = 0 THEN ToFloat((23 * PiD) \div 12)
    ELSE ToFloat(((2 * k - 1) * PiD) \div 12)

\* const float r_bins[4] = {30,46,62,78}  (RUnit)
r_bins(k) == (30 + 16 * k) * RUnit

\* the first index of 0..n-1 that satisfies Test, or the default 0
FirstOrZero(S) == IF S = {} THEN 0 ELSE CHOOSE k \in S : \A j \in S : k <= j

\* TpcDirectLaserReconstruction::Locate( r, phi, z ) on floats: r (RUnit),
\* phi (PhiUnit), z (ZUnit).  r_id and angle_id keep their default 0 when no
\* bin holds the value strictly inside.
Locate(r, phi, z) ==
    LET r_hit   == {r_iter \in 0..2 :
                       r > r_bins(r_iter) /\ r < r_bins(r_iter + 1)}
        r_id    == IF r_hit = {} THEN 0 ELSE FirstOrZero(r_hit) + 1
        ang_hit == {ang_iter \in 0..11 :
                       phi > Angle_Bins(ang_iter) /\ phi < Angle_Bins(ang_iter + 1)}
        angle_id == FirstOrZero(ang_hit)
        side_id == IF z < 0 THEN 1 ELSE 0
    IN  36 * side_id + 3 * angle_id + r_id

\* TpcDirectLaserReconstruction::get_cell_index( global )
get_cell_index(global, mc) ==
    cell_index(atan2(global.y, global.x), FpToR(get_r(global.x, global.y)),
               global.z, mc)
(***************************************************************************)
(* TpcDirectLaserReconstruction::process_track                             *)
(* A track has origin <<x, y, z>> (x, y in cm, z in ZUnit) and direction   *)
(* <<px, py, pz>>.  A hit has its layer, the centre phi of its pad         *)
(* (PhiUnit), its position x, y (cm) and z (ZUnit), and its adc.           *)
(* The state st that the loops thread is the members of the module         *)
(* (m_total_hits, m_matched_hits, m_accepted_clusters, mc for              *)
(* m_matrix_container), the locals of process_track (cluspos_map,          *)
(* layer_bin_set), whether the process has died (crashed), and a log with  *)
(* one entry per iteration of the layer loop.                              *)
(***************************************************************************)
\* oc: the vector from the track origin to the hit, in fixed point
HitOc(hit, origin) ==
    <<(hit.x - origin[1]) * LFP, (hit.y - origin[2]) * LFP,
      ZToFp(hit.z - origin[3])>>

\* dca > m_max_dca, where dca = (oc - om).Mag() and om = direction*t with
\* t = direction.Dot(oc)/square(direction.Mag()).  The comparison is done
\* exactly, on the squares.  For a direction of length zero t is 0/0 and dca
\* is NaN: the comparison is false.
DcaAbove(oc, direction, max_dca) ==
    /\ Dot(direction, direction) # 0
    /\ Dot(oc, oc) * Dot(direction, direction) - Sq(Dot(direction, oc))
           > Sq(max_dca * LFP) * Dot(direction, direction)

\* mutation: an associated hit is not counted
CountMatchedHit_Skipped(n) == n

\* ++m_matched_hits
CountMatchedHit(n) == n + 1

\* the end of the body of the hit loop: GEM_Mod_Arr[locateid-1]++ and the
\* insertions in cluspos_map and layer_bin_set.  GEM_Mod_Arr has the
\* indices 0..71: an increment outside it is undefined, and either goes
\* unnoticed or ends the process, as cfg.gem_oob says.
AssociateHit(cfg, hit, locateid, st) ==
    IF locateid - 1 \notin 0..71 /\ cfg.gem_oob = "crash"
    THEN [st EXCEPT !.crashed = TRUE, !.gem_oob = @ + 1]
    ELSE [st EXCEPT
            !.gem_oob = IF locateid - 1 \notin 0..71 THEN @ + 1 ELSE @,
            !.cluspos_map = Append(@, [layer |-> hit.layer,
                                       adc |-> hit.adc - cfg.m_pedestal,
                                       x |-> hit.x, y |-> hit.y, z |-> hit.z]),
            !.layer_bin_set = @ \cup {hit.layer}]

\* the body of the hit loop.  h_deltheta_delphi->Fill is not guarded: with
\* no histograms (m_savehistograms false) it is a call on a null pointer.
ProcessHit(track, cfg, hit, st) ==
    IF ~cfg.savehistograms
    THEN [st EXCEPT !.m_total_hits = @ + 1, !.crashed = TRUE]
    ELSE IF DcaAbove(HitOc(hit, track.origin), track.direction, cfg.m_max_dca)
    THEN [st EXCEPT !.m_total_hits = @ + 1]
    ELSE AssociateHit(cfg, hit,
             Locate(ToFloat(FpToR(get_r(hit.x * LFP, hit.y * LFP))),
                    WrapDown(WrapUp(ToFloat(hit.phi))), ToFloat(hit.z)),
             [st EXCEPT !.m_total_hits = @ + 1,
                        !.m_matched_hits = CountMatchedHit(@)])

RECURSIVE HitLoop(_, _, _, _, _)
\* the loops over the hit sets and their hits, from hit k on
HitLoop(track, cfg, hits, k, st) ==
    IF k > Len(hits) \/ st.crashed THEN st
    ELSE HitLoop(track, cfg, hits, k + 1, ProcessHit(track, cfg, hits[k], st))

(***************************************************************************)
(* The layer loop                                                          *)
(***************************************************************************)
\* the two punts on the outer and inner radius and the choice of t on the
\* centre radius.  The radii are given by their diameters.  A NaN pair
\* fails every comparison.
LayerT(origin, direction, lg) ==
    LET outer  == line_circle_intersection(origin, direction,
                                           2 * lg.radius + lg.thickness)
        inner  == line_circle_intersection(origin, direction,
                                           2 * lg.radius - lg.thickness)
        center == line_circle_intersection(origin, direction, 2 * lg.radius)
        t      == IF center.second > 0 /\ center.second < center.first
                  THEN center.second ELSE center.first
    IN  IF ~outer.nan /\ outer.first <= 0 /\ outer.second <= 0
        THEN [punt |-> "outer", t |-> 0, nan |-> FALSE]
        ELSE IF ~inner.nan /\ inner.first <= 0 /\ inner.second <= 0
        THEN [punt |-> "inner", t |-> 0, nan |-> FALSE]
        ELSE IF center.nan THEN [punt |-> "none", t |-> 0, nan |-> TRUE]
        ELSE IF t < 0 THEN [punt |-> "center", t |-> t, nan |-> FALSE]
        ELSE [punt |-> "none", t |-> t, nan |-> FALSE]

\* projection = origin + direction*t : x, y in fixed point, z in ZUnit
Projection(origin, direction, tt) ==
    [nan |-> tt.nan,
     x |-> origin[1] * LFP + direction[1] * tt.t,
     y |-> origin[2] * LFP + direction[2] * tt.t,
     z |-> origin[3] + FpToZ(direction[3] * tt.t)]

\* pathlength = om.Mag(), in fixed point
PathLength(direction, tt) == Sqrt(Dot(direction, direction) * Sq(tt.t))

CentroidStart == [sx |-> 0, sy |-> 0, sz |-> 0, wt |-> 0,
                  zmin |-> 999 * ZUnit, zmax |-> -999 * ZUnit]

\* mutation: no cut on the distance in z to the projection
CentroidAdd_NoCut(c, proj, max_zrange, acc) ==
    [sx |-> acc.sx + c.x * c.adc, sy |-> acc.sy + c.y * c.adc,
     sz |-> acc.sz + c.z * c.adc, wt |-> acc.wt + c.adc,
     zmin |-> IF c.z < acc.zmin THEN c.z ELSE acc.zmin,
     zmax |-> IF c.z > acc.zmax THEN c.z ELSE acc.zmax]

\* the body of the loop over the hits of the layer
CentroidAdd(c, proj, max_zrange, acc) ==
    IF ~proj.nan /\ Abs(c.z - proj.z) > max_zrange THEN acc
    ELSE [sx |-> acc.sx + c.x * c.adc, sy |-> acc.sy + c.y * c.adc,
          sz |-> acc.sz + c.z * c.adc, wt |-> acc.wt + c.adc,
          zmin |-> IF c.z < acc.zmin THEN c.z ELSE acc.zmin,
          zmax |-> IF c.z > acc.zmax THEN c.z ELSE acc.zmax]

RECURSIVE CentroidLoop(_, _, _, _, _, _)
CentroidLoop(cluspos_map, layer, k, proj, max_zrange, acc) ==
    IF k > Len(cluspos_map) THEN acc
    ELSE CentroidLoop(cluspos_map, layer, k + 1, proj, max_zrange,
             IF cluspos_map[k].layer = layer
             THEN CentroidAdd(cluspos_map[k], proj, max_zrange, acc)
             ELSE acc)

\* mutation: sums of no weight are taken as they are
Coord_Unweighted(sum, wt, scale) ==
    [k |-> "fin", v |-> IF wt # 0 THEN RDiv(sum * scale, wt) ELSE sum * scale]

\* sum/wt * scale: a number (k = "fin"), 0/0 ("nan") or an infinity ("inf",
\* v its sign)
Coord(sum, wt, scale) ==
    IF wt # 0 THEN [k |-> "fin", v |-> RDiv(sum * scale, wt)]
    ELSE IF sum = 0 THEN [k |-> "nan", v |-> 0]
    ELSE [k |-> "inf", v |-> IF sum > 0 THEN 1 ELSE -1]

\* clus_centroid.z() +- transit_dz, where transit_dz = pathlength *
\* ns_per_cm * get_drift_velocity(): drift is the z (ZUnit) per unit of
\* pathlength
TransitZ(z, originz, direction, tt, drift) ==
    IF z.k = "nan" \/ tt.nan THEN [k |-> "nan", v |-> 0]
    ELSE IF z.k = "inf" THEN z
    ELSE IF originz > 0
    THEN [k |-> "fin", v |-> z.v + PathLength(direction, tt) * drift]
    ELSE [k |-> "fin", v |-> z.v - PathLength(direction, tt) * drift]

\* clus_centroid after the division by wt and the transit correction
Centroid(acc, originz, direction, tt, drift) ==
    [x |-> Coord(acc.sx, acc.wt, LFP), y |-> Coord(acc.sy, acc.wt, LFP),
     z |-> TransitZ(Coord(acc.sz, acc.wt, 1), originz, direction, tt, drift)]

\* a value of the layer loop: nan when it is not a number, else val (a
\* number, or NotFinite)
NanValue == [nan |-> TRUE, val |-> Num(0)]

Value(val) == [nan |-> FALSE, val |-> val]

\* track_pr and track_pphi times the radius of the projection, and that
\* radius (1 on the axis, where track_phi is atan2(0,0) = 0)
TrackPr(direction, proj) ==
    IF proj.x = 0 /\ proj.y = 0 THEN direction[1]
    ELSE direction[1] * proj.x + direction[2] * proj.y

TrackPphi(direction, proj) ==
    IF proj.x = 0 /\ proj.y = 0 THEN direction[2]
    ELSE -direction[1] * proj.y + direction[2] * proj.x

ProjR(proj) == IF proj.x = 0 /\ proj.y = 0 THEN 1 ELSE get_r(proj.x, proj.y)

\* -num/den.  A den of 0 stands for a track_pr that is zero or, where
\* cos and sin of track_phi are rounded, next to zero: the quotient of a
\* num # 0 is an infinity or of the order of 10^16 (NotFinite); the
\* quotient of 0 is 0/0 only if exact, that is for track_phi = 0, where
\* cos is 1 and sin is 0.
NegQuotient(num, den, exact) ==
    IF den # 0 THEN Value(Num(RDiv(-num * LFP, den)))
    ELSE IF num # 0 THEN Value(NotFinite)
    ELSE IF exact THEN NanValue
    ELSE Value(Num(0))

\* talpha = -track_pphi/track_pr
talpha(direction, proj) ==
    IF proj.nan THEN NanValue
    ELSE NegQuotient(TrackPphi(direction, proj), TrackPr(direction, proj),
                     proj.y = 0 /\ proj.x >= 0)

\* tbeta = -track_pz/track_pr
tbeta(direction, proj) ==
    IF proj.nan THEN NanValue
    ELSE NegQuotient(direction[3] * ProjR(proj), TrackPr(direction, proj),
                     proj.y = 0 /\ proj.x >= 0)

\* what std::atan2 sees of a coordinate a next to the coordinate b: an
\* infinite a by its sign, a finite a next to an infinite b as 0
AtanArg(a, b) ==
    IF a.k = "inf" THEN a.v ELSE IF b.k = "inf" THEN 0 ELSE a.v

\* cluster_phi = std::atan2( clus_centroid.y(), clus_centroid.x() )
cluster_phi(c) == atan2(AtanArg(c.y, c.x), AtanArg(c.x, c.y))

\* drp = cluster_r*delta_phi( cluster_phi - track_phi )
drp(c, proj) ==
    IF c.x.k = "nan" \/ c.y.k = "nan" \/ proj.nan THEN NanValue
    ELSE IF c.x.k = "inf" \/ c.y.k = "inf"
    THEN IF delta_phi(cluster_phi(c) - atan2(proj.y, proj.x)) = 0
         THEN NanValue ELSE Value(NotFinite)
    ELSE Value(Num(RDiv(get_r(c.x.v, c.y.v)
                        * RDiv(delta_phi(cluster_phi(c) - atan2(proj.y, proj.x)),
                               4096),
                        4096)))

\* dz = cluster_z - track_z
dz(c, proj) ==
    IF c.z.k = "nan" \/ proj.nan THEN NanValue
    ELSE IF c.z.k = "inf" THEN Value(NotFinite)
    ELSE Value(Num(ZToFp(c.z.v - proj.z)))

\* get_cell_index( clus_centroid ): an infinite r or z is out of range
CentroidCell(c, mc) ==
    IF c.x.k = "inf" \/ c.y.k = "inf" \/ c.z.k = "inf"
    THEN [i |-> -1, bins |-> <<-1, -1, -1>>]
    ELSE get_cell_index([x |-> c.x.v, y |-> c.y.v, z |-> c.z.v], mc)

\* 1./erp in units of 1./ez: square(0.075)/square(0.015)
InvErp == 25

NScale(k, a) == IF a.nf THEN NotFinite ELSE Num(k * a.v)

NMul(a, b) == IF a.nf \/ b.nf THEN NotFinite ELSE Num(RDiv(a.v * b.v, LFP))

\* mutation: talpha/erp is added above the diagonal only
UpdateMatrices_UpperOnly(mc, i, ta, tb, rp, z) ==
    LET m1  == add_to_lhs(mc, i, 0, 0, Num(InvErp * LFP))
        m2  == add_to_lhs(m1, i, 0, 1, Num(0))
        m3  == add_to_lhs(m2, i, 0, 2, NScale(InvErp, ta))
        m4  == add_to_lhs(m3, i, 1, 0, Num(0))
        m5  == add_to_lhs(m4, i, 1, 1, Num(LFP))
        m6  == add_to_lhs(m5, i, 1, 2, tb)
        m7  == add_to_lhs(m6, i, 2, 0, Num(0))
        m8  == add_to_lhs(m7, i, 2, 1, tb)
        m9  == add_to_lhs(m8, i, 2, 2,
                          NAdd(NScale(InvErp, NMul(ta, ta)), NMul(tb, tb)))
        m10 == add_to_rhs(m9, i, 0, NScale(InvErp, rp))
        m11 == add_to_rhs(m10, i, 1, z)
        m12 == add_to_rhs(m11, i, 2,
                          NAdd(NScale(InvErp, NMul(ta, rp)), NMul(tb, z)))
    IN  add_to_entries(m12, i)

\* "update matrices": the nine add_to_lhs, the three add_to_rhs and
\* add_to_entries, all on cell i.  The values are in units of 1./ez.
UpdateMatrices(mc, i, ta, tb, rp, z) ==
    LET m1  == add_to_lhs(mc, i, 0, 0, Num(InvErp * LFP))
        m2  == add_to_lhs(m1, i, 0, 1, Num(0))
        m3  == add_to_lhs(m2, i, 0, 2, NScale(InvErp, ta))
        m4  == add_to_lhs(m3, i, 1, 0, Num(0))
        m5  == add_to_lhs(m4, i, 1, 1, Num(LFP))
        m6  == add_to_lhs(m5, i, 1, 2, tb)
        m7  == add_to_lhs(m6, i, 2, 0, NScale(InvErp, ta))
        m8  == add_to_lhs(m7, i, 2, 1, tb)
        m9  == add_to_lhs(m8, i, 2, 2,
                          NAdd(NScale(InvErp, NMul(ta, ta)), NMul(tb, tb)))
        m10 == add_to_rhs(m9, i, 0, NScale(InvErp, rp))
        m11 == add_to_rhs(m10, i, 1, z)
        m12 == add_to_rhs(m11, i, 2,
                          NAdd(NScale(InvErp, NMul(ta, rp)), NMul(tb, z)))
    IN  add_to_entries(m12, i)

\* if( i < 0 ) continue;
InvalidCell(i) == i < 0

\* the centroid of an iteration that ended before it had one
NoCentroid == [x |-> [k |-> "nan", v |-> 0], y |-> [k |-> "nan", v |-> 0],
               z |-> [k |-> "nan", v |-> 0]]

\* an iteration of the layer loop that ends by continue, at the test
\* named ended; have tells if clus_centroid was computed, i is the cell
\* index (-2: get_cell_index was not called)
LayerEnd(st, layer, ended, have, c, i) ==
    [st EXCEPT !.log = Append(@, [trkid |-> st.trkid, layer |-> layer,
                                  ended |-> ended, have |-> have,
                                  centroid |-> c, i |-> i, adds |-> 0,
                                  accepted |-> 0, changed |-> FALSE])]

\* mutation: the layer is counted, its matrices are not kept
AcceptLayer_NotKept(st, layer, c, i, mc2) ==
    [st EXCEPT !.m_accepted_clusters = @ + 1,
               !.log = Append(@, [trkid |-> st.trkid, layer |-> layer,
                                  ended |-> "accepted", have |-> TRUE,
                                  centroid |-> c, i |-> i, adds |-> 13,
                                  accepted |-> 1, changed |-> FALSE])]

\* mutation: the matrices are kept, the layer is not counted
AcceptLayer_NotCounted(st, layer, c, i, mc2) ==
    [st EXCEPT !.mc = mc2,
               !.log = Append(@, [trkid |-> st.trkid, layer |-> layer,
                                  ended |-> "accepted", have |-> TRUE,
                                  centroid |-> c, i |-> i, adds |-> 13,
                                  accepted |-> 1, changed |-> mc2 # st.mc])]

\* an iteration that runs to its end: the matrices are updated to mc2 and
\* ++m_accepted_clusters
AcceptLayer(st, layer, c, i, mc2) ==
    [st EXCEPT !.mc = mc2,
               !.m_accepted_clusters = @ + 1,
               !.log = Append(@, [trkid |-> st.trkid, layer |-> layer,
                                  ended |-> "accepted", have |-> TRUE,
                                  centroid |-> c, i |-> i, adds |-> 13,
                                  accepted |-> 1, changed |-> mc2 # st.mc])]

\* from get_cell_index to the end of the iteration
LayerFromCell(track, layer, proj, c, cell, st) ==
    IF InvalidCell(cell.i) THEN LayerEnd(st, layer, "cell", TRUE, c, cell.i)
    ELSE AcceptLayer(st, layer, c, cell.i,
             UpdateMatrices(st.mc, cell.i, talpha(track.direction, proj).val,
                            tbeta(track.direction, proj).val,
                            drp(c, proj).val, dz(c, proj).val))

\* the sanity checks on talpha, tbeta, drp and dz
LayerFromCentroid(track, layer, proj, c, st) ==
    IF talpha(track.direction, proj).nan
    THEN LayerEnd(st, layer, "talpha", TRUE, c, -2)
    ELSE IF tbeta(track.direction, proj).nan
    THEN LayerEnd(st, layer, "tbeta", TRUE, c, -2)
    ELSE IF drp(c, proj).nan THEN LayerEnd(st, layer, "drp", TRUE, c, -2)
    ELSE IF dz(c, proj).nan THEN LayerEnd(st, layer, "dz", TRUE, c, -2)
    ELSE LayerFromCell(track, layer, proj, c, CentroidCell(c, st.mc), st)

\* the test on zrange, then the transit correction
LayerFromSums(track, cfg, ev, layer, tt, proj, acc, st) ==
    IF acc.zmax - acc.zmin > cfg.m_max_zrange
    THEN LayerEnd(st, layer, "zrange", FALSE, NoCentroid, -2)
    ELSE LayerFromCentroid(track, layer, proj,
             Centroid(acc, track.origin[3], track.direction, tt, ev.drift), st)

\* from the projection on the layer to the sums over its hits
LayerFromT(track, cfg, ev, layer, tt, proj, st) ==
    IF tt.punt # "none"
    THEN LayerEnd(st, layer, tt.punt, FALSE, NoCentroid, -2)
    ELSE LayerFromSums(track, cfg, ev, layer, tt, proj,
             CentroidLoop(st.cluspos_map, layer, 1, proj, cfg.m_max_zrange,
                          CentroidStart), st)

\* the body of the layer loop
ProcessLayer(track, cfg, ev, layer, st) ==
    LayerFromT(track, cfg, ev, layer,
               LayerT(track.origin, track.direction, ev.geom[layer]),
               Projection(track.origin, track.direction,
                          LayerT(track.origin, track.direction, ev.geom[layer])),
               st)

RECURSIVE LayerLoop(_, _, _, _, _)
\* for(auto layer : layer_bin_set), in increasing order
LayerLoop(track, cfg, ev, layers, st) ==
    IF layers = {} THEN st
    ELSE LET layer == CHOOSE l \in layers : \A m \in layers : l <= m
         IN  LayerLoop(track, cfg, ev, layers \ {layer},
                       ProcessLayer(track, cfg, ev, layer, st))

\* process_track after its hit loop
AfterHitLoop(track, cfg, ev, st) ==
    IF st.crashed THEN st
    ELSE LayerLoop(track, cfg, ev, st.layer_bin_set, st)

\* mutation: the map of the hits and the set of the layers are members,
\* kept from one track to the next
process_track_Stateful(trkid, track, cfg, ev, st) ==
    IF ev.hits # <<>> /\ "geom" \notin ev.nodes
    THEN [st EXCEPT !.crashed = TRUE]
    ELSE IF ev.hits # <<>> /\ "acts" \notin ev.nodes
    THEN [st EXCEPT !.m_total_hits = @ + 1, !.crashed = TRUE]
    ELSE AfterHitLoop(track, cfg, ev,
             HitLoop(track, cfg, ev.hits, 1, [st EXCEPT !.trkid = trkid]))

\* process_track.  Its hit loop reads m_geom_container for the first hit
\* set and m_tGeometry for the first hit: a missing node is a null pointer
\* there.
process_track(trkid, track, cfg, ev, st) ==
    IF ev.hits # <<>> /\ "geom" \notin ev.nodes
    THEN [st EXCEPT !.crashed = TRUE]
    ELSE IF ev.hits # <<>> /\ "acts" \notin ev.nodes
    THEN [st EXCEPT !.m_total_hits = @ + 1, !.crashed = TRUE]
    ELSE AfterHitLoop(track, cfg, ev,
             HitLoop(track, cfg, ev.hits, 1,
                     [st EXCEPT !.trkid = trkid, !.cluspos_map = <<>>,
                                !.layer_bin_set = {}]))

RECURSIVE TrackLoop(_, _, _, _)
TrackLoop(cfg, ev, k, st) ==
    IF k > Len(ev.tracks) \/ st.crashed THEN st
    ELSE TrackLoop(cfg, ev, k + 1, process_track(k, ev.tracks[k], cfg, ev, st))

\* process_tracks
process_tracks(cfg, ev, st) ==
    IF ~({"tracks", "hits"} \subseteq ev.nodes) THEN st
    ELSE TrackLoop(cfg, ev, 1, st)

LaserNodes == {"geom", "acts", "tracks", "hits"}

\* load_nodes: every node is asserted; without NDEBUG a missing node ends
\* the process.  The return value is EVENT_OK, whatever was found.
load_nodes(cfg, ev) ==
    [aborted |-> ~cfg.ndebug /\ ev.nodes # LaserNodes, res |-> "EVENT_OK"]

\* process_event on the members st; ret is what it returns ("none" when
\* it does not return)
process_event_laser(cfg, ev, st) ==
    IF load_nodes(cfg, ev).aborted THEN [st EXCEPT !.crashed = TRUE]
    ELSE IF load_nodes(cfg, ev).res # "EVENT_OK"
    THEN [st EXCEPT !.ret = load_nodes(cfg, ev).res]
    ELSE LET st2 == process_tracks(cfg, ev,
                        [st EXCEPT !.process_tracks_called = TRUE])
         IN  [st2 EXCEPT !.ret = IF st2.crashed THEN "none" ELSE "EVENT_OK"]
(***************************************************************************)
(* Specifications.  Each one exercises one part of the model; the          *)
(* variables of the other parts stay at their idle values.                 *)
(***************************************************************************)
CcNone == [ret |-> FALSE, intersectionXY |-> <<>>, nan |-> FALSE,
           divzero |-> FALSE, called |-> FALSE]

CcIdle ==
    /\ cc_args = [r0 |-> 0, x0 |-> 0, y0 |-> 0, r1 |-> 0, x1 |-> 0, y1 |-> 0,
                  intersectionXY |-> <<>>]
    /\ cc_res = CcNone

PcaNone == [dca |-> 0, PCA1 |-> Zero3, PCA2 |-> Zero3,
            dcaNan |-> FALSE, pcaNan |-> FALSE, divCross |-> FALSE,
            divDot |-> FALSE, divZero |-> FALSE, called |-> "none"]

PcaIdle ==
    /\ pca_args = [a1 |-> Zero3, b1 |-> Zero3, a2 |-> Zero3, b2 |-> Zero3,
                   dca |-> 0, PCA1 |-> Zero3, PCA2 |-> Zero3]
    /\ pca_res = PcaNone

SvfIdle ==
    /\ svf_event = [track_map |-> <<>>]
    /\ svf_out = SvfOutNone

LaserRunNone == [phase |-> "idle", events |-> 0, log |-> <<>>, gem_oob |-> 0,
                 m_max_dca |-> 0, fraction_div_zero |-> FALSE]

LaserIdle ==
    /\ m_total_hits = 0
    /\ m_matched_hits = 0
    /\ m_accepted_clusters = 0
    /\ m_matrix_container = container_set_grid_dimensions(1, 1, 1)
    /\ laser_cfg = [savehistograms |-> FALSE]
    /\ laser_run = LaserRunNone

CellNone == [called |-> FALSE, i |-> -2, bins |-> <<-1, -1, -1>>]

CellIdle ==
    /\ cell_args = [phi |-> 0, r |-> 0, z |-> 0, dims |-> <<1, 1, 1>>]
    /\ cell_res = CellNone

GridNone == [called |-> FALSE]

GridIdle ==
    /\ grid_args = [cell |-> 0]
    /\ grid_res = GridNone

GeomNone == [called |-> "none"]

GeomIdle ==
    /\ geom_args = [fn |-> "none"]
    /\ geom_res = GeomNone

NodeNone == [called |-> "none"]

NodeIdle ==
    /\ node_args = [module |-> "none"]
    /\ node_res = NodeNone

LoopIdle == loop = [module |-> "none", pc |-> "done"]

TrkNone == [called |-> FALSE]

TrkIdle == trk_args = [tracks |-> <<>>] /\ trk_res = TrkNone

(***************************************************************************)
(* Specification of circle_circle_intersection as a pure function          *)
(***************************************************************************)
MaxRadius == 4
MaxCentre == 5

CcArgs == [r0 : 0..MaxRadius, x0 : {0, 1}, y0 : {0},
           r1 : 0..MaxRadius, x1 : (-MaxCentre)..MaxCentre,
           y1 : (-MaxCentre)..MaxCentre,
           intersectionXY : {<<>>, <<700, -700>>}]

InitCircle ==
    /\ cc_args \in CcArgs
    /\ cc_res = CcNone
    /\ PcaIdle /\ SvfIdle /\ LaserIdle /\ CellIdle /\ GridIdle /\ GeomIdle /\ NodeIdle /\ LoopIdle /\ TrkIdle

CallCircleCircleIntersection ==
    /\ ~cc_res.called
    /\ LET a == cc_args
           r == circle_circle_intersection(a.r0, a.x0, a.y0, a.r1, a.x1, a.y1,
                                           a.intersectionXY)
       IN  cc_res' = [ret |-> r.ret, intersectionXY |-> r.intersectionXY,
                      nan |-> r.nan, divzero |-> r.divzero, called |-> TRUE]
    /\ UNCHANGED <<cc_args, pcaVars, svfVars, laserVars, cellVars, gridVars, geomVars, nodeVars, loop, trkVars>>

NextCircle == CallCircleCircleIntersection

SpecCircle == InitCircle /\ [][NextCircle]_vars

(***************************************************************************)
(* Specification of findPcaTwoLines / dcaTwoLines as pure functions        *)
(***************************************************************************)
MaxPos == 2

\* directions: axes, diagonals, multiples and opposites of one another, zero
Directions == {<<1, 0, 0>>, <<2, 0, 0>>, <<-1, 0, 0>>, <<0, 1, 0>>,
               <<1, 1, 0>>, <<-2, -2, 0>>, <<1, 2, 0>>, <<0, 1, 1>>,
               <<1, -1, 1>>, <<2, 1, -1>>, <<0, 0, 0>>}

LinePoints == {<<x, 0, z>> : x \in 0..MaxPos, z \in 0..MaxPos}
                  \cup {<<1, y, 1>> : y \in (-MaxPos)..MaxPos}

PcaArgs == [a1 : {<<0, 0, 0>>, <<1, -1, 2>>}, b1 : Directions,
            a2 : LinePoints, b2 : Directions,
            dca : {0, 1234}, PCA1 : {Zero3, <<5, 6, 7>>}, PCA2 : {<<-5, 6, 8>>}]

InitLines ==
    /\ pca_args \in PcaArgs
    /\ pca_res = PcaNone
    /\ CcIdle /\ SvfIdle /\ LaserIdle /\ CellIdle /\ GridIdle /\ GeomIdle /\ NodeIdle /\ LoopIdle /\ TrkIdle

CallFindPcaTwoLines ==
    /\ pca_res.called = "none"
    /\ LET a == pca_args
           r == findPcaTwoLines(a.a1, a.b1, a.a2, a.b2, a.dca, a.PCA1, a.PCA2)
       IN  pca_res' = [called |-> "findPcaTwoLines"] @@ r
    /\ UNCHANGED <<pca_args, ccVars, svfVars, laserVars, cellVars, gridVars, geomVars, nodeVars, loop, trkVars>>

CallDcaTwoLines ==
    /\ pca_res.called = "none"
    /\ LET a == pca_args
           r == dcaTwoLines(a.a1, a.b1, a.a2, a.b2, a.PCA1, a.PCA2)
       IN  pca_res' = [called |-> "dcaTwoLines"] @@ r
    /\ UNCHANGED <<pca_args, ccVars, svfVars, laserVars, cellVars, gridVars, geomVars, nodeVars, loop, trkVars>>

NextLines == CallFindPcaTwoLines \/ CallDcaTwoLines

SpecLines == InitLines /\ [][NextLines]_vars

(***************************************************************************)
(* Specification of SecondaryVertexFinder::process_event: one event        *)
(***************************************************************************)
MaxTracks == 3

\* the vertex map of the events: vertex 0 has tracks, vertex 1 has none;
\* no other id is in the map
VertexMap == [v \in {0, 1} |->
                 [pos |-> Zero3, size_tracks |-> IF v = 0 THEN 2 ELSE 0]]

\* a positive track that passes every cut
TrackA == [vertex_id |-> 0, charge |-> 1, quality |-> 5, silicon |-> TRUE,
           ntpc |-> 30, pos |-> <<0, 2, 3>>, mom |-> <<1, 0, 1>>,
           nclus |-> 5, nclus_noINTT |-> 5,
           circle |-> [R |-> 5, X0 |-> -3, Y0 |-> 0],
           proj |-> [ok |-> TRUE, pos |-> <<0, 4, 0>>, mom |-> <<2, 0, 1>>]]

\* a negative track that passes every cut; its circle meets that of TrackA
\* in (0,-4) and (0,4); with TrackA its pair dca is -y ticks
TrackB(y) == [TrackA EXCEPT !.charge = -1,
                            !.circle = [R |-> 5, X0 |-> 3, Y0 |-> 0],
                            !.proj = [ok |-> TRUE, pos |-> <<0, 4 + y, 0>>,
                                      mom |-> <<-1, 0, 1>>]]

TrackMenu ==
    { TrackA,
      TrackB(-1),                                     \* pair dca  1 tick
      TrackB(3),                                      \* pair dca -3 ticks
      TrackB(-4),                                     \* pair dca  4 ticks
      [TrackB(0) EXCEPT !.circle.X0 = 8],             \* circles barely touch
      [TrackB(0) EXCEPT !.proj.ok = FALSE, !.silicon = FALSE],
      [TrackB(0) EXCEPT !.vertex_id = 2],             \* vertex not in the map
      [TrackA EXCEPT !.vertex_id = 1],                \* vertex without tracks
      [TrackB(0) EXCEPT !.pos = <<0, 0, 3>>],         \* dca3dxy exactly 0
      [TrackB(0) EXCEPT !.nclus = 2, !.nclus_noINTT = 2],
      [TrackA EXCEPT !.quality = 50, !.ntpc = 19, !.charge = -1],
      [TrackB(-1) EXCEPT !.charge = 1] }               \* positive, like TrackA

\* the settings of the module (lengths in ticks)
SvfConfig(mvtx, verb) ==
    [require_mvtx |-> mvtx, verbosity |-> verb, qual_cut |-> 10,
     track_dcaxy_cut |-> 1, track_dcaz_cut |-> 1,
     max_intersection_radius |-> 40, projected_track_z_cut |-> 3,
     two_track_dcacut |-> 2, min_path_cut |-> 2]

\* the values an uninitialised local can hold, and what the dereference of
\* a null vertex does, go together to keep the events few
Builds == { [null_deref |-> "crash", uninit_float |-> 0, uninit_point |-> Pt(0, 0)],
            [null_deref |-> "zero", uninit_float |-> 5 * FP,
             uninit_point |-> Pt(0, 4 * FP)],
            [null_deref |-> "nonzero", uninit_float |-> 5 * FP,
             uninit_point |-> Pt(0, 0)] }

\* the tracks a map holds after its first two
TailMenu ==
    { TrackA,
      TrackB(-1),
      TrackB(3),
      [TrackB(0) EXCEPT !.vertex_id = 2],
      [TrackA EXCEPT !.vertex_id = 1],
      [TrackB(0) EXCEPT !.nclus = 2, !.nclus_noINTT = 2] }

\* two tracks of the menu, then up to MaxTracks - 2 of the shorter menu
TrackMaps ==
    UNION {{tm \in [1..n -> TrackMenu] : \A k \in 3..n : tm[k] \in TailMenu} :
           n \in 2..MaxTracks}

Events == { [track_map |-> tm, vertex_map |-> VertexMap,
             cfg |-> SvfConfig(c[1], c[2]),
             null_deref |-> b.null_deref, uninit_float |-> b.uninit_float,
             uninit_point |-> b.uninit_point] :
            tm \in TrackMaps, c \in {<<TRUE, 0>>, <<FALSE, 1>>}, b \in Builds }

InitSvf ==
    /\ svf_event \in Events
    /\ svf_out = SvfOutNone
    /\ CcIdle /\ PcaIdle /\ LaserIdle /\ CellIdle /\ GridIdle /\ GeomIdle /\ NodeIdle /\ LoopIdle /\ TrkIdle

ProcessEventSvf ==
    /\ ~svf_out.done
    /\ svf_out' = process_event_svf(svf_event)
    /\ UNCHANGED <<svf_event, ccVars, pcaVars, laserVars, cellVars, gridVars, geomVars, nodeVars, loop, trkVars>>

NextSvf == ProcessEventSvf

SpecSvf == InitSvf /\ [][NextSvf]_vars


(***************************************************************************)
(* Specification of get_cell_index as a pure function of the doubles it    *)
(* reads off the position: the positions are taken at and next to the      *)
(* edges of the grid, a few units of the last place apart.                 *)
(***************************************************************************)
\* how many steps off an edge the positions go
MaxSteps == 2

\* phi as std::atan2 gives it, in [-pi, pi]
CellPhis == {k * 7 : k \in (-MaxSteps)..MaxSteps}
            \cup {PiD - k : k \in 0..MaxSteps}
            \cup {-PiD + k : k \in 0..MaxSteps}
            \cup {PiOver2, -PiOver2, -PiOver4}

CellRs == {m_rmin + k : k \in (-MaxSteps)..MaxSteps}
          \cup {m_rmax + 5 * k : k \in (-MaxSteps)..MaxSteps}
          \cup {49 * RUnit}

CellZs == {m_zmin + k : k \in (-MaxSteps)..MaxSteps}
          \cup {m_zmax + 3 * k : k \in (-MaxSteps)..MaxSteps}
          \cup {0}

CellDims == {<<1, 1, 1>>, <<12, 4, 4>>, <<3, 7, 5>>, <<5, 3, 12>>}

InitCell ==
    /\ cell_args \in [phi : CellPhis, r : CellRs, z : CellZs, dims : CellDims]
    /\ cell_res = CellNone
    /\ CcIdle /\ PcaIdle /\ SvfIdle /\ LaserIdle /\ GridIdle /\ GeomIdle /\ NodeIdle /\ LoopIdle /\ TrkIdle

CallGetCellIndex ==
    /\ ~cell_res.called
    /\ LET a == cell_args
           r == cell_index(a.phi, a.r, a.z,
                    container_set_grid_dimensions(a.dims[1], a.dims[2], a.dims[3]))
       IN  cell_res' = [called |-> TRUE, i |-> r.i, bins |-> r.bins]
    /\ UNCHANGED <<cell_args, ccVars, pcaVars, svfVars, laserVars, gridVars, geomVars, nodeVars, loop, trkVars>>

NextCell == CallGetCellIndex

SpecCell == InitCell /\ [][NextCell]_vars

(***************************************************************************)
(* Specification of the accumulation in the grid: add_to_lhs on a grid     *)
(* that may hold earlier sums                                              *)
(***************************************************************************)
MaxValue == 3

GridEmpty == container_set_grid_dimensions(2, 1, 1)

\* grids that earlier calls have left
GridMenu == {GridEmpty,
             add_to_lhs(GridEmpty, 1, 0, 0, Num(7)),
             add_to_entries(add_to_rhs(add_to_lhs(GridEmpty, 0, 0, 0, Num(-5)),
                                       0, 1, Num(-3)), 0),
             add_to_lhs(GridEmpty, 0, 0, 0, NotFinite)}

GridValues == {Num(k) : k \in (-MaxValue)..MaxValue} \cup {NotFinite}

InitGrid ==
    /\ grid_args \in [mc : GridMenu, cell : -1..2, v1 : GridValues,
                      v2 : GridValues]
    /\ grid_res = GridNone
    /\ CcIdle /\ PcaIdle /\ SvfIdle /\ LaserIdle /\ CellIdle /\ GeomIdle /\ NodeIdle /\ LoopIdle /\ TrkIdle

\* the two calls in both orders, and the single call with the sum
CallAddToLhs ==
    /\ ~grid_res.called
    /\ LET a == grid_args
       IN  grid_res' =
             [called |-> TRUE,
              g12  |-> add_to_lhs(add_to_lhs(a.mc, a.cell, 0, 0, a.v1),
                                  a.cell, 0, 0, a.v2),
              g21  |-> add_to_lhs(add_to_lhs(a.mc, a.cell, 0, 0, a.v2),
                                  a.cell, 0, 0, a.v1),
              gsum |-> add_to_lhs(a.mc, a.cell, 0, 0, NAdd(a.v1, a.v2))]
    /\ UNCHANGED <<grid_args, ccVars, pcaVars, svfVars, laserVars, cellVars, geomVars, nodeVars, loop, trkVars>>

NextGrid == CallAddToLhs

SpecGrid == InitGrid /\ [][NextGrid]_vars

(***************************************************************************)
(* Specification of TpcDirectLaserReconstruction: Init, InitRun, a number  *)
(* of process_event, End.                                                  *)
(* Three layers (radius 30, 50 and 79 cm, 2 cm thick: the last one is      *)
(* beyond the grid); lasers along the x axis at z = -105 cm and at z = 0,  *)
(* one askew that meets layer 2 at (0, -50, -105), and one whose           *)
(* direction has length zero; hits on the axes.                            *)
(***************************************************************************)
MaxEvents == 2

LaserGeom == [l \in 1..3 |-> [radius |-> <<30, 50, 79>>[l], thickness |-> 2]]

\* the transit correction of z (ZUnit) per unit of path length: a drift
\* velocity of 0.0073 cm/ns
LaserDrift == 2

LaserTracks ==
    << [origin |-> <<60, 0, -105 * ZUnit>>, direction |-> <<-1, 0, 0>>],
       [origin |-> <<60, 0, 0>>,            direction |-> <<-1, 0, 0>>],
       [origin |-> <<-10, -60, -115 * ZUnit>>, direction |-> <<1, 1, 1>>],
       [origin |-> <<60, 0, -105 * ZUnit>>, direction |-> <<0, 0, 0>>] >>

LaserHit(layer, phi, x, y, z, adc) ==
    [layer |-> layer, phi |-> phi, x |-> x, y |-> y, z |-> z, adc |-> adc]

\* 1: on the first laser, layer 2;  2: the same on the far side;
\* 3: layer 3, beyond r = 78;  4: layer 2, its z after the transit
\* correction one unit below -105.5;  5: layer 1 at z = 0, on the second
\* laser;  6: on the third laser, z = -106;  7: on the third laser;
\* 8: layer 1, on the first laser, of weight zero
LaserHits ==
    << LaserHit(2, 0, 50, 0, -105 * ZUnit, 1),
       LaserHit(2, PiD, -50, 0, -105 * ZUnit, 2),
       LaserHit(3, 0, 79, 0, -105 * ZUnit, 1),
       LaserHit(2, 0, 50, 0, m_zmin - 1 + 10 * LFP * LaserDrift, 1),
       LaserHit(1, 0, 30, 0, 0, 1),
       LaserHit(2, -PiOver2, 0, -50, -106 * ZUnit, 1),
       LaserHit(2, -PiOver2, 0, -50, -105 * ZUnit, 3),
       LaserHit(1, 0, 30, 0, -105 * ZUnit, 0) >>

RECURSIVE SubSeq2(_, _)
\* the elements of menu at the indices S, in the order of menu
SubSeq2(menu, S) ==
    IF S = {} THEN <<>>
    ELSE LET k == CHOOSE i \in S : \A j \in S : i <= j
         IN  <<menu[k]>> \o SubSeq2(menu, S \ {k})

LaserEvent(ts, hs, nodes) ==
    [nodes |-> nodes, tracks |-> SubSeq2(LaserTracks, ts),
     hits |-> SubSeq2(LaserHits, hs), geom |-> LaserGeom,
     drift |-> LaserDrift]

\* every laser with every hit; some events with two hits or two lasers,
\* with none; events that lack a node
LaserEvents ==
    {LaserEvent({t}, {h}, LaserNodes) :
         t \in DOMAIN LaserTracks, h \in DOMAIN LaserHits}
    \cup {LaserEvent(s[1], s[2], LaserNodes) :
         s \in {<<{1}, {1, 2}>>, <<{1}, {1, 4}>>, <<{1}, {1, 3}>>,
                <<{1, 3}, {1, 7}>>, <<{1, 2}, {1, 5}>>, <<{1}, {}>>,
                <<{}, {1}>>}}
    \cup {LaserEvent({1}, {1}, LaserNodes \ {n}) : n \in LaserNodes}

LaserCfg(dims, savehistograms, gem_oob, ndebug) ==
    [phibins |-> dims[1], rbins |-> dims[2], zbins |-> dims[3],
     savehistograms |-> savehistograms, gem_oob |-> gem_oob,
     ndebug |-> ndebug, directlaser_max_dca |-> 20,
     m_max_zrange |-> 2 * ZUnit, m_pedestal |-> 0]

LaserCfgs == {LaserCfg(<<4, 2, 2>>, TRUE, "benign", FALSE),
              LaserCfg(<<1, 1, 1>>, TRUE, "crash", TRUE),
              LaserCfg(<<4, 2, 2>>, FALSE, "benign", TRUE)}

\* after the constructor and set_grid_dimensions
InitLaser ==
    /\ laser_cfg \in LaserCfgs
    /\ m_total_hits = 0
    /\ m_matched_hits = 0
    /\ m_accepted_clusters = 0
    /\ m_matrix_container =
         container_set_grid_dimensions(laser_cfg.phibins, laser_cfg.rbins,
                                       laser_cfg.zbins)
    /\ laser_run = [LaserRunNone EXCEPT !.phase = "constructed"]
    /\ CcIdle /\ PcaIdle /\ SvfIdle /\ CellIdle /\ GridIdle /\ GeomIdle /\ NodeIdle /\ LoopIdle /\ TrkIdle

\* TpcDirectLaserReconstruction::Init
LaserInit ==
    /\ laser_run.phase = "constructed"
    /\ m_total_hits' = 0
    /\ m_matched_hits' = 0
    /\ m_accepted_clusters' = 0
    /\ laser_run' = [laser_run EXCEPT !.phase = "init"]
    /\ UNCHANGED <<m_matrix_container, laser_cfg, ccVars, pcaVars, svfVars,
                   cellVars, gridVars, geomVars, nodeVars, loop, trkVars>>

\* TpcDirectLaserReconstruction::InitRun: m_max_dca is read from the
\* parameters
LaserInitRun ==
    /\ laser_run.phase = "init"
    /\ laser_run' = [laser_run EXCEPT
                       !.phase = "run",
                       !.m_max_dca = laser_cfg.directlaser_max_dca]
    /\ UNCHANGED <<m_total_hits, m_matched_hits, m_accepted_clusters,
                   m_matrix_container, laser_cfg, ccVars, pcaVars, svfVars,
                   cellVars, gridVars, geomVars, nodeVars, loop, trkVars>>

\* the members of the module before an event
LaserMembers ==
    [m_total_hits |-> m_total_hits, m_matched_hits |-> m_matched_hits,
     m_accepted_clusters |-> m_accepted_clusters, mc |-> m_matrix_container,
     log |-> <<>>, crashed |-> FALSE, gem_oob |-> 0, trkid |-> 0,
     cluspos_map |-> <<>>, layer_bin_set |-> {}, ret |-> "none",
     process_tracks_called |-> FALSE]

\* the state after process_event has left the members st
LaserAfterEvent(st) ==
    /\ m_total_hits' = st.m_total_hits
    /\ m_matched_hits' = st.m_matched_hits
    /\ m_accepted_clusters' = st.m_accepted_clusters
    /\ m_matrix_container' = st.mc
    /\ laser_run' = [laser_run EXCEPT
                       !.phase = IF st.crashed THEN "crashed" ELSE "run",
                       !.events = @ + 1, !.log = st.log,
                       !.gem_oob = st.gem_oob]

\* TpcDirectLaserReconstruction::process_event
LaserProcessEvent ==
    /\ laser_run.phase = "run"
    /\ laser_run.events < MaxEvents
    /\ \E ev \in LaserEvents :
         LaserAfterEvent(process_event_laser(
             [m_max_dca |-> laser_run.m_max_dca] @@ laser_cfg, ev,
             LaserMembers))
    /\ UNCHANGED <<laser_cfg, ccVars, pcaVars, svfVars, cellVars, gridVars, geomVars, nodeVars, loop, trkVars>>

\* TpcDirectLaserReconstruction::End: the counters are printed with the
\* quotient m_accepted_clusters/m_total_hits
LaserEnd ==
    /\ laser_run.phase = "run"
    /\ laser_run' = [laser_run EXCEPT !.phase = "ended",
                                      !.fraction_div_zero = (m_total_hits = 0)]
    /\ UNCHANGED <<m_total_hits, m_matched_hits, m_accepted_clusters,
                   m_matrix_container, laser_cfg, ccVars, pcaVars, svfVars,
                   cellVars, gridVars, geomVars, nodeVars, loop, trkVars>>

NextLaser == LaserInit \/ LaserInitRun \/ LaserProcessEvent \/ LaserEnd

SpecLaser == InitLaser /\ [][NextLaser]_vars

(***************************************************************************)
(* Specification of delta_phi and line_circle_intersection as pure         *)
(* functions.  The angles go MaxTurns turns either way, with the angles    *)
(* at and next to the odd multiples of pi; the lines start on a grid of    *)
(* points (cm) with directions of components -1, 0, 1; the circles are     *)
(* the inner, centre and outer circles of the layers of LaserGeom.         *)
(***************************************************************************)
MaxTurns == 2

GeomPhis ==
    {k * PiOver2 + j : k \in (-4 * MaxTurns)..(4 * MaxTurns),
                       j \in (-MaxSteps)..MaxSteps}
    \cup {s * (PiD + t * TwoPiD) + j : s \in {-1, 1}, t \in 0..(MaxTurns - 1),
                                       j \in (-MaxSteps)..MaxSteps}

GeomPoints == {<<x, y, 0>> : x \in {-60, -10, 0, 30, 60}, y \in {-60, 0, 30, 50}}

GeomDirections == {<<x, y, z>> : x \in {-1, 0, 1}, y \in {-1, 0, 1}, z \in {0, 1}}

\* twice the radii line_circle_intersection is called with for a layer
GeomDiameters ==
    UNION {{2 * LaserGeom[l].radius - LaserGeom[l].thickness,
            2 * LaserGeom[l].radius,
            2 * LaserGeom[l].radius + LaserGeom[l].thickness} :
           l \in DOMAIN LaserGeom}

InitGeom ==
    /\ geom_args \in
          {[fn |-> "delta_phi", phi |-> phi] : phi \in GeomPhis}
          \cup {[fn |-> "line_circle_intersection", p |-> p, d |-> d,
                 diameter |-> w] :
                p \in GeomPoints, d \in GeomDirections, w \in GeomDiameters}
    /\ geom_res = GeomNone
    /\ CcIdle /\ PcaIdle /\ SvfIdle /\ LaserIdle /\ CellIdle /\ GridIdle /\ NodeIdle /\ LoopIdle /\ TrkIdle

CallDeltaPhi ==
    /\ geom_res.called = "none"
    /\ geom_args.fn = "delta_phi"
    /\ geom_res' = [called |-> "delta_phi", value |-> delta_phi(geom_args.phi)]
    /\ UNCHANGED <<geom_args, ccVars, pcaVars, svfVars, laserVars, cellVars,
                   gridVars, nodeVars, loop, trkVars>>

CallLineCircleIntersection ==
    /\ geom_res.called = "none"
    /\ geom_args.fn = "line_circle_intersection"
    /\ LET r == line_circle_intersection(geom_args.p, geom_args.d,
                                         geom_args.diameter)
       IN  geom_res' = [called |-> "line_circle_intersection",
                        first |-> r.first, second |-> r.second, nan |-> r.nan]
    /\ UNCHANGED <<geom_args, ccVars, pcaVars, svfVars, laserVars, cellVars,
                   gridVars, nodeVars, loop, trkVars>>

NextGeom == CallDeltaPhi \/ CallLineCircleIntersection

SpecGeom == InitGeom /\ [][NextGeom]_vars

(***************************************************************************)
(* Specification of the two modules on a node tree that lacks nodes:       *)
(* TpcDirectLaserReconstruction::process_event after Init and InitRun,     *)
(* for any set of its four nodes, and SecondaryVertexFinder::InitRun for   *)
(* any set of its four nodes.                                              *)
(***************************************************************************)
NodeLaserEvents ==
    {LaserEvent(s[1], s[2], nodes) :
        s \in {<<{1}, {1}>>, <<{1, 3}, {1, 7}>>, <<{1}, {}>>, <<{}, {1}>>},
        nodes \in SUBSET LaserNodes}

SvfNodeSet == {SvfNodes[k] : k \in DOMAIN SvfNodes}

InitNodes ==
    /\ node_args \in
          {[module |-> "TpcDirectLaserReconstruction", cfg |-> cfg, ev |-> ev] :
              cfg \in LaserCfgs, ev \in NodeLaserEvents}
          \cup {[module |-> "SecondaryVertexFinder", nodes |-> nodes,
                 use_electrons |-> e] :
                nodes \in SUBSET SvfNodeSet, e \in BOOLEAN}
    /\ node_res = NodeNone
    /\ CcIdle /\ PcaIdle /\ SvfIdle /\ LaserIdle /\ CellIdle /\ GridIdle /\ GeomIdle /\ LoopIdle /\ TrkIdle

\* TpcDirectLaserReconstruction::process_event, the first of a run
NodeLaserProcessEvent ==
    /\ node_res.called = "none"
    /\ node_args.module = "TpcDirectLaserReconstruction"
    /\ LET cfg == node_args.cfg
           st  == process_event_laser(
                      [m_max_dca |-> cfg.directlaser_max_dca] @@ cfg,
                      node_args.ev,
                      [LaserMembers EXCEPT
                          !.mc = container_set_grid_dimensions(
                                     cfg.phibins, cfg.rbins, cfg.zbins)])
       IN  node_res' = [called |-> "process_event", ret |-> st.ret,
                        crashed |-> st.crashed,
                        process_tracks_called |-> st.process_tracks_called,
                        m_total_hits |-> st.m_total_hits,
                        m_accepted_clusters |-> st.m_accepted_clusters,
                        layers |-> Len(st.log)]
    /\ UNCHANGED <<node_args, ccVars, pcaVars, svfVars, laserVars, cellVars,
                   gridVars, geomVars, loop, trkVars>>

\* SecondaryVertexFinder::InitRun
NodeSvfInitRun ==
    /\ node_res.called = "none"
    /\ node_args.module = "SecondaryVertexFinder"
    /\ node_res' = [called |-> "InitRun"]
                   @@ InitRun(node_args.nodes, node_args.use_electrons,
                              SvfConstructed)
    /\ UNCHANGED <<node_args, ccVars, pcaVars, svfVars, laserVars, cellVars,
                   gridVars, geomVars, loop, trkVars>>

NextNodes == NodeLaserProcessEvent \/ NodeSvfInitRun

SpecNodes == InitNodes /\ [][NextNodes]_vars

(***************************************************************************)
(* Specification of process_event of the two modules with one iteration    *)
(* of a loop a step: the loops over tracks, hits and layers of             *)
(* TpcDirectLaserReconstruction and the while loops that bring phi into    *)
(* [m_phimin, m_phimax), the loops over tracks and pairs of                *)
(* SecondaryVertexFinder.  loop.pc tells which loop runs, loop.iters       *)
(* counts the iterations.  A hit comes with the phi that get_phicenter     *)
(* gives for its pad: within MaxTurns turns of [-pi, pi].                  *)
(***************************************************************************)
\* 9: hit 1 with its phi a turn up; 10: hit 7, MaxTurns turns down;
\* 11: hit 2, MaxTurns turns up
LoopHits ==
    LaserHits \o
    << LaserHit(2, TwoPiD, 50, 0, -105 * ZUnit, 1),
       LaserHit(2, -PiOver2 - MaxTurns * TwoPiD, 0, -50, -105 * ZUnit, 3),
       LaserHit(2, PiD + MaxTurns * TwoPiD, -50, 0, -105 * ZUnit, 2) >>

LoopLaserEvents ==
    {[nodes |-> LaserNodes, tracks |-> SubSeq2(LaserTracks, ts),
      hits |-> SubSeq2(LoopHits, hs), geom |-> LaserGeom,
      drift |-> LaserDrift] :
        ts \in {{}, {1}, {1, 3}, {3, 4}, {1, 2, 3}},
        hs \in {{}, {1}, {7}, {9}, {10}, {11}, {1, 2}, {1, 7, 10},
                {2, 5, 9, 11}, {1, 4, 6, 8}}}

\* the settings of the laser module: histograms on, 4 x 2 x 2 cells
LoopLaserCfg ==
    [m_max_dca |-> LaserCfg(<<4, 2, 2>>, TRUE, "benign", FALSE).directlaser_max_dca]
    @@ LaserCfg(<<4, 2, 2>>, TRUE, "benign", FALSE)

LoopMenu == {TrackA, TrackB(-1), [TrackB(0) EXCEPT !.vertex_id = 2]}

LoopSvfEvents ==
    {[track_map |-> tm, vertex_map |-> VertexMap, cfg |-> SvfConfig(TRUE, 0),
      null_deref |-> b.null_deref, uninit_float |-> b.uninit_float,
      uninit_point |-> b.uninit_point] :
        tm \in UNION {[1..n -> LoopMenu] : n \in 2..MaxTracks}, b \in Builds}

NoIters == [tracks |-> 0, hits |-> 0, layers |-> 0, pairs |-> 0]

InitLoops ==
    /\ CcIdle /\ PcaIdle /\ SvfIdle /\ LaserIdle /\ CellIdle /\ GridIdle
    /\ GeomIdle /\ NodeIdle /\ TrkIdle
    /\ loop \in
          {[module |-> "TpcDirectLaserReconstruction", pc |-> "tracks",
            ev |-> ev, trk |-> 1, hit |-> 1, layers |-> {},
            st |-> [LaserMembers EXCEPT
                       !.mc = container_set_grid_dimensions(
                                  LoopLaserCfg.phibins, LoopLaserCfg.rbins,
                                  LoopLaserCfg.zbins)],
            pending |-> LaserMembers, phi |-> 0, wrap |-> 0, maxwrap |-> 0,
            iters |-> NoIters] : ev \in LoopLaserEvents}
          \cup
          {[module |-> "SecondaryVertexFinder", pc |-> "outer", ev |-> ev,
            id1 |-> 1, id2 |-> 1, out |-> SvfOutNone, iters |-> NoIters] :
            ev \in LoopSvfEvents}

LoopFrame ==
    UNCHANGED <<ccVars, pcaVars, svfVars, laserVars, cellVars, gridVars,
                geomVars, nodeVars, trkVars>>

\* process_tracks: for( auto iter = m_track_map->begin(); ... )
LoopTrack ==
    /\ loop.pc = "tracks"
    /\ loop' =
         IF loop.trk > Len(loop.ev.tracks) \/ loop.st.crashed
         THEN [loop EXCEPT !.pc = "done"]
         ELSE [loop EXCEPT !.pc = "hits", !.hit = 1,
                           !.st = [@ EXCEPT !.trkid = loop.trk,
                                            !.cluspos_map = <<>>,
                                            !.layer_bin_set = {}],
                           !.iters.tracks = @ + 1]
    /\ LoopFrame

\* process_track: the loops over the hit sets and their hits, up to the
\* test on dca for the hit at hand
LoopHit ==
    /\ loop.pc = "hits"
    /\ loop' =
         IF loop.hit > Len(loop.ev.hits) \/ loop.st.crashed
         THEN [loop EXCEPT !.pc = "layers",
                           !.layers = IF loop.st.crashed THEN {}
                                      ELSE loop.st.layer_bin_set]
         ELSE IF DcaAbove(HitOc(loop.ev.hits[loop.hit],
                                loop.ev.tracks[loop.trk].origin),
                          loop.ev.tracks[loop.trk].direction,
                          LoopLaserCfg.m_max_dca)
         THEN [loop EXCEPT !.hit = @ + 1, !.iters.hits = @ + 1,
                           !.st = ProcessHit(loop.ev.tracks[loop.trk],
                                             LoopLaserCfg,
                                             loop.ev.hits[loop.hit], @)]
         ELSE [loop EXCEPT !.pc = "while_471", !.iters.hits = @ + 1,
                           !.phi = ToFloat(loop.ev.hits[loop.hit].phi),
                           !.wrap = 0]
    /\ LoopFrame

\* mutation: the sum rounds back to phi2
LoopHitWrapUp_Absorbed ==
    /\ loop.pc = "while_471"
    /\ loop' = IF loop.phi < m_phimin
               THEN [loop EXCEPT !.wrap = @ + 1]
               ELSE [loop EXCEPT !.pc = "while_472"]
    /\ LoopFrame

\* while( phi2 < m_phimin ) phi2 += 2.*M_PI;
LoopHitWrapUp ==
    /\ loop.pc = "while_471"
    /\ loop' = IF loop.phi < m_phimin
               THEN [loop EXCEPT !.phi = AddTwoPi(@), !.wrap = @ + 1]
               ELSE [loop EXCEPT !.pc = "while_472"]
    /\ LoopFrame

\* while( phi2 >= m_phimax ) phi2 -= 2.*M_PI;
LoopHitWrapDown ==
    /\ loop.pc = "while_472"
    /\ loop' = IF loop.phi >= m_phimax
               THEN [loop EXCEPT !.phi = SubTwoPi(@), !.wrap = @ + 1]
               ELSE [loop EXCEPT !.pc = "Locate"]
    /\ LoopFrame

\* the rest of the body of the hit loop
LoopLocate ==
    /\ loop.pc = "Locate"
    /\ loop' = [loop EXCEPT
                  !.pc = "hits", !.hit = @ + 1,
                  !.maxwrap = IF loop.wrap > @ THEN loop.wrap ELSE @,
                  !.st = ProcessHit(loop.ev.tracks[loop.trk], LoopLaserCfg,
                                    loop.ev.hits[loop.hit], @)]
    /\ LoopFrame

\* what the body of the layer loop makes of the members, and the entry it
\* logs
LoopLayerDone(layer) ==
    ProcessLayer(loop.ev.tracks[loop.trk], LoopLaserCfg, loop.ev, layer,
                 loop.st)

LoopLayerEntry(layer) ==
    LoopLayerDone(layer).log[Len(LoopLayerDone(layer).log)]

\* for(auto layer : layer_bin_set): the body up to get_cell_index, or to
\* its end when get_cell_index is not reached
LoopLayer ==
    /\ loop.pc = "layers"
    /\ loop' =
         IF loop.layers = {}
         THEN [loop EXCEPT !.pc = "tracks", !.trk = @ + 1]
         ELSE LET layer == CHOOSE l \in loop.layers :
                              \A m \in loop.layers : l <= m
              IN  IF LoopLayerEntry(layer).i = -2
                  THEN [loop EXCEPT !.layers = @ \ {layer},
                                    !.iters.layers = @ + 1,
                                    !.st = LoopLayerDone(layer)]
                  ELSE [loop EXCEPT
                          !.pc = "while_804", !.layers = @ \ {layer},
                          !.iters.layers = @ + 1, !.wrap = 0,
                          !.phi = ToFloat(cluster_phi(
                                      LoopLayerEntry(layer).centroid)),
                          !.pending = LoopLayerDone(layer)]
    /\ LoopFrame

\* get_cell_index: while( phi < m_phimin ) phi += 2.*M_PI;
LoopCellWrapUp ==
    /\ loop.pc = "while_804"
    /\ loop' = IF loop.phi < m_phimin
               THEN [loop EXCEPT !.phi = AddTwoPi(@), !.wrap = @ + 1]
               ELSE [loop EXCEPT !.pc = "while_805"]
    /\ LoopFrame

\* get_cell_index: while( phi >= m_phimax ) phi -= 2.*M_PI;
LoopCellWrapDown ==
    /\ loop.pc = "while_805"
    /\ loop' = IF loop.phi >= m_phimax
               THEN [loop EXCEPT !.phi = SubTwoPi(@), !.wrap = @ + 1]
               ELSE [loop EXCEPT !.pc = "cell"]
    /\ LoopFrame

\* the rest of the body of the layer loop
LoopCell ==
    /\ loop.pc = "cell"
    /\ loop' = [loop EXCEPT
                  !.pc = "layers", !.st = loop.pending,
                  !.maxwrap = IF loop.wrap > @ THEN loop.wrap ELSE @]
    /\ LoopFrame

\* SecondaryVertexFinder::process_event: the outer loop, up to the inner
\* loop
LoopOuter ==
    /\ loop.pc = "outer"
    /\ loop' =
         IF loop.id1 > Len(loop.ev.track_map)
         THEN [loop EXCEPT !.pc = "done"]
         ELSE LET ev      == loop.ev
                  tr1     == ev.track_map[loop.id1]
                  isNull  == tr1.vertex_id \notin DOMAIN ev.vertex_map
                  ntracks == IF isNull
                             THEN (IF ev.null_deref = "zero" THEN 0 ELSE 1)
                             ELSE ev.vertex_map[tr1.vertex_id].size_tracks
                  out1    == [loop.out EXCEPT
                                !.null_derefs = @ + (IF isNull THEN 1 ELSE 0)]
              IN  IF isNull /\ ev.null_deref = "crash"
                  THEN [loop EXCEPT !.pc = "done", !.iters.tracks = @ + 1,
                                    !.out = [out1 EXCEPT !.crashed = TRUE]]
                  ELSE IF \/ ntracks = 0
                          \/ (ev.cfg.require_mvtx /\ ~hasSiliconSeed(tr1))
                          \/ TrackCutsSkip(tr1,
                                 get_dca(tr1, ev.vertex_map, ev.uninit_float),
                                 ev.cfg)
                  THEN [loop EXCEPT !.id1 = @ + 1, !.iters.tracks = @ + 1,
                                    !.out = out1]
                  ELSE [loop EXCEPT !.pc = "inner", !.id2 = loop.id1 + 1,
                                    !.iters.tracks = @ + 1, !.out = out1]
    /\ LoopFrame

\* the inner loop: tr2_it from std::next(tr1_it)
LoopInner ==
    /\ loop.pc = "inner"
    /\ loop' =
         IF loop.id2 > Len(loop.ev.track_map)
         THEN [loop EXCEPT !.pc = "outer", !.id1 = @ + 1]
         ELSE [loop EXCEPT
                 !.id2 = @ + 1, !.iters.pairs = @ + 1,
                 !.out = AddPair(@, loop.id1, loop.id2,
                             ProcessPair(loop.ev, loop.id1, loop.id2,
                                 get_dca(loop.ev.track_map[loop.id1],
                                         loop.ev.vertex_map,
                                         loop.ev.uninit_float)))]
    /\ LoopFrame

NextLoops ==
    \/ LoopTrack \/ LoopHit \/ LoopHitWrapUp \/ LoopHitWrapDown \/ LoopLocate
    \/ LoopLayer \/ LoopCellWrapUp \/ LoopCellWrapDown \/ LoopCell
    \/ LoopOuter \/ LoopInner

SpecLoops == InitLoops /\ [][NextLoops]_vars

\* Weak fairness of the three steps that hold the body of a loop, with
\* ENABLED written as the guard of the step: the step moves on to the next
\* hit, layer or track, so it changes loop whenever its guard holds.
FairLocate == []<>(loop.pc # "Locate") \/ []<><<LoopLocate>>_vars
FairLayer  == []<>(loop.pc # "layers") \/ []<><<LoopLayer>>_vars
FairInner  == []<>(loop.pc # "inner") \/ []<><<LoopInner>>_vars

\* process_event runs on its own thread of control and nothing in it waits:
\* a step that can be taken is taken
SpecLoopsLive ==
    /\ SpecLoops
    /\ WF_vars(LoopTrack) /\ WF_vars(LoopHit)
    /\ WF_vars(LoopHitWrapUp) /\ WF_vars(LoopHitWrapDown)
    /\ WF_vars(LoopCellWrapUp) /\ WF_vars(LoopCellWrapDown)
    /\ WF_vars(LoopCell) /\ WF_vars(LoopOuter)
    /\ FairLocate /\ FairLayer /\ FairInner

(***************************************************************************)
(* Specification of TpcDirectLaserReconstruction::process_tracks on one    *)
(* event of a module that holds an empty grid: the tracks in the order of  *)
(* the track map, in every other order, and each track alone.              *)
(* The layers are those of LaserGeom (centre radius 30, 50 and 79 cm,      *)
(* 2 cm thick).  m_pedestal is 1: an adc of 1 weighs nothing, an adc of 0  *)
(* weighs -1.                                                              *)
(***************************************************************************)
MaxLaserTracks == 2

\* 1: along the x axis, inward, from outside layer 2;  2: the same from
\* the centre circle of layer 2;  3: outward from the inner circle of
\* layer 2;  4: a direction of length zero;  5: askew, meets layer 2 at
\* (0, -50, -105);  6: as 1, at z = 0
TrkTracks ==
    << [origin |-> <<60, 0, -105 * ZUnit>>, direction |-> <<-1, 0, 0>>],
       [origin |-> <<50, 0, -105 * ZUnit>>, direction |-> <<-1, 0, 0>>],
       [origin |-> <<49, 0, -105 * ZUnit>>, direction |-> <<1, 0, 0>>],
       [origin |-> <<60, 0, -105 * ZUnit>>, direction |-> <<0, 0, 0>>],
       [origin |-> <<-10, -60, -115 * ZUnit>>, direction |-> <<1, 1, 1>>],
       [origin |-> <<60, 0, 0>>, direction |-> <<-1, 0, 0>>] >>

\* 1 to 3: layer 2 at (50, 0), z = -105, -103.5 and -106.5;  4: layer 2
\* on the far side, 3 cm above the first laser;  5: layer 1, of weight 0;
\* 6, 7: layer 1, of weight -1 and 1 on opposite sides;  8: layer 1 at
\* z = 0;  9: on the askew laser;  10: layer 3, beyond r = 78;  11: layer
\* 1 at (29, 8), phi = atan2(8, 29), z = -104
TrkHits ==
    << LaserHit(2, 0, 50, 0, -105 * ZUnit, 2),
       LaserHit(2, 0, 50, 0, -207 * (ZUnit \div 2), 2),
       LaserHit(2, 0, 50, 0, -213 * (ZUnit \div 2), 3),
       LaserHit(2, PiD, -50, 0, -102 * ZUnit, 3),
       LaserHit(1, 0, 30, 0, -105 * ZUnit, 1),
       LaserHit(1, 0, 30, 0, -105 * ZUnit, 0),
       LaserHit(1, PiD, -30, 0, -105 * ZUnit, 2),
       LaserHit(1, 0, 30, 0, 0, 2),
       LaserHit(2, -PiOver2, 0, -50, -105 * ZUnit, 2),
       LaserHit(3, 0, 79, 0, -105 * ZUnit, 2),
       LaserHit(1, 4515881, 29, 8, -104 * ZUnit, 2) >>

TrkHitSets ==
    {{}, {1}, {4}, {5}, {7}, {8}, {9}, {10}, {1, 2}, {2, 3}, {1, 4}, {1, 5},
     {6, 7}, {1, 7}, {1, 8}, {1, 9}, {6, 11}, {1, 2, 3}, {1, 5, 7},
     {1, 6, 7}, {1, 6, 11}}

\* the settings: histograms on, 4 x 2 x 2 cells, and what the build does
\* with an increment outside GEM_Mod_Arr
TrkCfg(gem_oob) ==
    [m_max_dca |-> LaserCfg(<<4, 2, 2>>, TRUE, gem_oob, TRUE).directlaser_max_dca]
    @@ [LaserCfg(<<4, 2, 2>>, TRUE, gem_oob, TRUE) EXCEPT !.m_pedestal = 1]

\* the tracks of an event, by their numbers: up to MaxLaserTracks of them,
\* each choice once (the action takes every order), the third and later
\* ones among lasers 1 and 5
TrkChoices ==
    UNION {{s \in [1..n -> DOMAIN TrkTracks] :
               /\ \A i, j \in 1..n : i <= j => s[i] <= s[j]
               /\ \A k \in 3..n : s[k] \in {1, 5}} :
           n \in 1..MaxLaserTracks}

\* an increment outside GEM_Mod_Arr only happens with hit 8
TrkEvents ==
    {[cfg |-> TrkCfg(b), tracks |-> [k \in DOMAIN s |-> TrkTracks[s[k]]],
      hits |-> SubSeq2(TrkHits, hs)] :
        b \in {"benign"}, s \in TrkChoices, hs \in TrkHitSets}
    \cup
    {[cfg |-> TrkCfg(b), tracks |-> [k \in DOMAIN s |-> TrkTracks[s[k]]],
      hits |-> SubSeq2(TrkHits, hs)] :
        b \in {"crash"}, s \in TrkChoices, hs \in {{8}, {1, 8}}}

InitTrack ==
    /\ CcIdle /\ PcaIdle /\ SvfIdle /\ LaserIdle /\ CellIdle /\ GridIdle
    /\ GeomIdle /\ NodeIdle /\ LoopIdle
    /\ trk_args \in TrkEvents
    /\ trk_res = TrkNone

\* the orders of n tracks
Orders(n) == {p \in [1..n -> 1..n] : \A i, j \in 1..n : p[i] = p[j] => i = j}

\* the event of trk_args with the tracks  tracks
TrkEvent(tracks) ==
    [nodes |-> LaserNodes, tracks |-> tracks, hits |-> trk_args.hits,
     geom |-> LaserGeom, drift |-> LaserDrift]

\* the members of a module that has seen no event, with its empty grid
TrkMembers ==
    [LaserMembers EXCEPT
        !.m_total_hits = 0, !.m_matched_hits = 0, !.m_accepted_clusters = 0,
        !.mc = container_set_grid_dimensions(trk_args.cfg.phibins,
                                             trk_args.cfg.rbins,
                                             trk_args.cfg.zbins)]

\* what process_tracks leaves of the members
TrkLeft(st) ==
    [m_total_hits |-> st.m_total_hits, m_matched_hits |-> st.m_matched_hits,
     m_accepted_clusters |-> st.m_accepted_clusters, mc |-> st.mc,
     crashed |-> st.crashed]

\* process_tracks on the tracks of the event; on the same tracks in every
\* order; on each of them alone.  t is what the layer loop takes for t on
\* each layer, for each track.
TrkProcessTracks ==
    /\ ~trk_res.called
    /\ trk_res' =
         [called |-> TRUE,
          st     |-> process_tracks(trk_args.cfg, TrkEvent(trk_args.tracks),
                                    TrkMembers),
          orders |-> [p \in Orders(Len(trk_args.tracks)) |->
                        TrkLeft(process_tracks(
                            trk_args.cfg,
                            TrkEvent([k \in DOMAIN trk_args.tracks |->
                                         trk_args.tracks[p[k]]]),
                            TrkMembers))],
          alone  |-> [k \in DOMAIN trk_args.tracks |->
                        TrkLeft(process_tracks(
                            trk_args.cfg, TrkEvent(<<trk_args.tracks[k]>>),
                            TrkMembers))],
          t      |-> [k \in DOMAIN trk_args.tracks |->
                        [l \in DOMAIN LaserGeom |->
                           LayerT(trk_args.tracks[k].origin,
                                  trk_args.tracks[k].direction,
                                  LaserGeom[l])]]]
    /\ UNCHANGED <<trk_args, ccVars, pcaVars, svfVars, laserVars, cellVars,
                   gridVars, geomVars, nodeVars, loop>>

NextTrack == TrkProcessTracks

SpecTrack == InitTrack /\ [][NextTrack]_vars
(***************************************************************************)
(* Claims about circle_circle_intersection                                 *)
(***************************************************************************)
\* squared distance of the centres of the call's two circles
CcD2 == Sq(cc_args.x1 - cc_args.x0) + Sq(cc_args.y1 - cc_args.y0)

CcSum == cc_args.r0 + cc_args.r1

\* what the call appended to the output vector
CcAppended ==
    SubSeq(cc_res.intersectionXY, Len(cc_args.intersectionXY) + 1,
           Len(cc_res.intersectionXY))

\* rounding allowance of the fixed-point results, in FP units
Tol == 8

\* a squared distance d2 (FP units) is that of a distance within Tol of rF
NearDist(d2, rF) ==
    /\ d2 <= Sq(rF + Tol)
    /\ (rF - Tol <= 0 \/ d2 >= Sq(rF - Tol))

\* the point (px,py) is at distance r0 of centre 0 and r1 of centre 1
OnBothCircles(px, py) ==
    /\ NearDist(Sq(px - cc_args.x0 * FP) + Sq(py - cc_args.y0 * FP),
                cc_args.r0 * FP)
    /\ NearDist(Sq(px - cc_args.x1 * FP) + Sq(py - cc_args.y1 * FP),
                cc_args.r1 * FP)

\* the point (px,py) is the midpoint of the two circles' nearest points: it
\* is on the line of centres, at (r0 + d - r1)/2 from centre 0 towards centre 1
IsMidpointOfNearest(px, py) ==
    LET ex    == cc_args.x1 - cc_args.x0
        ey    == cc_args.y1 - cc_args.y0
        qx    == px - cc_args.x0 * FP
        qy    == py - cc_args.y0 * FP
        dF    == Sqrt(CcD2 * FP * FP)
        cross == qx * ey - qy * ex
        dot   == qx * ex + qy * ey
    IN  /\ Abs(cross) * FP <= Tol * (dF + FP)
        /\ Abs(2 * dot * FP - (dF * (cc_args.r0 - cc_args.r1) * FP
                               + CcD2 * FP * FP))
              <= 2 * Tol * (dF + FP)

\* C5: for every circle pair with d > r0+r1+0.2 or d < |r0-r1| the call
\* returns false and appends no point to the output vector.
C5_NoIntersectionFails ==
    (cc_res.called /\ (CcD2 > Sq(CcSum + dr) \/ CcD2 < Sq(cc_args.r0 - cc_args.r1)))
        => (~cc_res.ret /\ cc_res.intersectionXY = cc_args.intersectionXY)

C5_Witness ==
    /\ cc_res.called /\ ~cc_res.ret
    /\ CcD2 > Sq(CcSum + dr)
    /\ cc_args.intersectionXY # <<>>
    /\ cc_res.intersectionXY = cc_args.intersectionXY

C7_AsClaimed ==
    (/\ cc_res.called
     /\ CcD2 >= Sq(cc_args.r0 - cc_args.r1)
     /\ CcD2 <= Sq(CcSum))
        => (/\ cc_res.ret
            /\ ~cc_res.divzero
            /\ ~cc_res.nan
            /\ Len(CcAppended) = 4
            /\ OnBothCircles(CcAppended[1], CcAppended[2])
            /\ OnBothCircles(CcAppended[3], CcAppended[4]))

\* the same for distinct centres (d > 0): holds of the code
C7_DistinctCentres ==
    (/\ cc_res.called
     /\ CcD2 > 0
     /\ CcD2 >= Sq(cc_args.r0 - cc_args.r1)
     /\ CcD2 <= Sq(CcSum))
        => (/\ cc_res.ret
            /\ ~cc_res.divzero
            /\ ~cc_res.nan
            /\ Len(CcAppended) = 4
            /\ OnBothCircles(CcAppended[1], CcAppended[2])
            /\ OnBothCircles(CcAppended[3], CcAppended[4]))

(***************************************************************************)
(* Claims about findPcaTwoLines / dcaTwoLines                              *)
(***************************************************************************)
\* the two directions of the call are non-zero and parallel
PcaParallel ==
    /\ pca_args.b1 # Zero3 /\ pca_args.b2 # Zero3
    /\ Cross(pca_args.b1, pca_args.b2) = Zero3

\* the two directions of the call are non-zero and perpendicular
PcaPerpendicular ==
    /\ pca_args.b1 # Zero3 /\ pca_args.b2 # Zero3
    /\ Dot(pca_args.b1, pca_args.b2) = 0

\* C8: for every pair of lines with parallel directions the returned dca is
\* the sentinel 999, PCA1 and PCA2 are left unchanged, and no division by
\* the cross-product norm or by b2.b1 is executed.
C8_ParallelSentinel ==
    (pca_res.called # "none" /\ PcaParallel)
        => (/\ pca_res.dca = DcaSentinel /\ ~pca_res.dcaNan
            /\ pca_res.PCA1 = pca_args.PCA1
            /\ pca_res.PCA2 = pca_args.PCA2
            /\ ~pca_res.divCross /\ ~pca_res.divDot)

C8_Witness ==
    /\ pca_res.called = "findPcaTwoLines" /\ PcaParallel
    /\ pca_args.b1 # pca_args.b2
    /\ pca_args.dca # 0 /\ pca_args.PCA1 # Zero3
    /\ pca_res.dca = DcaSentinel /\ pca_res.PCA1 = pca_args.PCA1

\* C9 as claimed: when the two directions are perpendicular (b2.b1 = 0) the
\* function returns the sentinel dca = 999 and does not divide by b2.b1.
C9_AsClaimed ==
    (pca_res.called # "none" /\ PcaPerpendicular)
        => (pca_res.dca = DcaSentinel /\ ~pca_res.dcaNan /\ ~pca_res.divDot)

(***************************************************************************)
(* Claims about SecondaryVertexFinder::process_event                       *)
(***************************************************************************)
SvfCut == svf_event.cfg.two_track_dcacut * FP

\* the rows of the ntuple, and the pair dcas computed, as sets
SvfRows == {svf_out.ntp[k] : k \in 1..Len(svf_out.ntp)}

SvfDcas == {svf_out.dcas[k] : k \in 1..Len(svf_out.dcas)}

\* C10: a candidate is emitted for an intersection of a track pair only if
\* |pair_dca| <= _two_track_dcacut: every row of the ntuple has a pair dca
\* within the cut, and an intersection whose pair dca was found above the
\* cut has no row.
C10_PairDcaCut ==
    svf_out.done =>
        /\ \A c \in SvfRows : ~c.dcaNan /\ Abs(c.pair_dca) <= SvfCut
        /\ \A d \in SvfDcas :
              (~d.dcaNan /\ Abs(d.pair_dca) > SvfCut)
                  => ~\E c \in SvfRows :
                        c.id1 = d.id1 /\ c.id2 = d.id2 /\ c.i = d.i

\* two pairs with the same first track, the second tracks differing in the
\* projected position only: the one below the cut has a row, the one above
\* (a negative dca) has none
C10_Witness ==
    /\ svf_out.done
    /\ \E c \in SvfRows, d \in SvfDcas :
          /\ c.id1 = d.id1 /\ c.id2 # d.id2
          /\ Abs(c.pair_dca) <= SvfCut /\ c.pair_dca # 0
          /\ d.pair_dca < -SvfCut
          /\ ~\E e \in SvfRows : e.id1 = d.id1 /\ e.id2 = d.id2


(***************************************************************************)
(* Claims on TpcDirectLaserReconstruction                                  *)
(***************************************************************************)
\* the position of cell_args is inside the range of r, of z
CellRIn == cell_args.r >= m_rmin /\ cell_args.r < m_rmax

CellZIn == cell_args.z >= m_zmin /\ cell_args.z < m_zmax

\* C3 (as claimed): get_cell_index puts a coordinate that is exactly at the
\* lower bound of its axis (phi = 0, r = 20, z = -105.5) in bin 0 of that
\* axis, returns -1 when r or z is outside [20,78), [-105.5,105.5), never
\* returns -1 because of phi, and whenever it does not return -1 the bins
\* are inside the grid.
C3_AsClaimed ==
    cell_res.called =>
        /\ (cell_args.phi = m_phimin => cell_res.bins[1] = 0)
        /\ (cell_args.r = m_rmin => cell_res.bins[2] = 0)
        /\ (CellRIn /\ cell_args.z = m_zmin => cell_res.bins[3] = 0)
        /\ (~CellRIn \/ ~CellZIn => cell_res.i = -1)
        /\ (CellRIn /\ CellZIn => cell_res.i # -1)
        /\ (cell_res.i # -1 =>
              /\ cell_res.bins[1] \in 0..(cell_args.dims[1] - 1)
              /\ cell_res.bins[2] \in 0..(cell_args.dims[2] - 1)
              /\ cell_res.bins[3] \in 0..(cell_args.dims[3] - 1))

\* the cell of grid_args is a cell of its grid
GridCellValid == grid_args.cell \in DOMAIN grid_args.mc.cells

C1_CountersOrdered ==
    /\ m_accepted_clusters <= m_matched_hits
    /\ m_matched_hits <= m_total_hits

\* after two events some hits were not associated, and some layers with
\* associated hits were accumulated, others not
C1_Witness ==
    /\ laser_run.phase = "run"
    /\ laser_run.events = MaxEvents
    /\ 0 < m_accepted_clusters
    /\ m_accepted_clusters < m_matched_hits
    /\ m_matched_hits < m_total_hits

\* the corrected centroid c, as the doubles it is made of, is outside
\* [20,78) in r or outside [-105.5,105.5) in z
CentroidOutside(c) ==
    \/ FpToR(get_r(c.x.v, c.y.v)) < m_rmin
    \/ FpToR(get_r(c.x.v, c.y.v)) >= m_rmax
    \/ c.z.v < m_zmin
    \/ c.z.v >= m_zmax

\* the layers of the last event whose corrected centroid is a position
\* outside the range
LayersOutside ==
    {k \in DOMAIN laser_run.log :
        /\ laser_run.log[k].have
        /\ laser_run.log[k].centroid.x.k = "fin"
        /\ laser_run.log[k].centroid.y.k = "fin"
        /\ laser_run.log[k].centroid.z.k = "fin"
        /\ CentroidOutside(laser_run.log[k].centroid)}

\* C2 (as claimed): in process_track a layer whose corrected centroid has
\* r outside [20,78) or z outside [-105.5,105.5) gets the cell index -1
\* when get_cell_index is reached, causes no add_to_lhs, add_to_rhs or
\* add_to_entries call and no increment of m_accepted_clusters, and leaves
\* the grid unchanged.
C2_AsClaimed ==
    \A k \in LayersOutside :
        /\ laser_run.log[k].i \in {-1, -2}
        /\ laser_run.log[k].adds = 0
        /\ laser_run.log[k].accepted = 0
        /\ ~laser_run.log[k].changed

\* the cells of the grid
GridCells == DOMAIN m_matrix_container.cells

\* the element (row, col) of the matrix of a cell
Lhs(cell, row, col) == m_matrix_container.cells[cell].lhs[3 * row + col]

\* C14: after any sequence of process_track calls the accumulated 3x3
\* matrix of every cell of the grid is symmetric: M[r][c] = M[c][r] for
\* all r, c in 0..2.
C14_MatrixSymmetric ==
    \A cell \in GridCells : \A row, col \in 0..2 :
        Lhs(cell, row, col) = Lhs(cell, col, row)

\* a cell that two layers were accumulated in, with elements off the
\* diagonal that are not zero
C14_Witness ==
    \E cell \in GridCells :
        /\ m_matrix_container.cells[cell].entries >= 2
        /\ Lhs(cell, 0, 2) # Num(0)
        /\ Lhs(cell, 1, 2) # Num(0)
        /\ Lhs(cell, 0, 2) = Lhs(cell, 2, 0)

\* the number of entries of a cell
Entries(cell) == m_matrix_container.cells[cell].entries

RECURSIVE SumEntries(_)
\* the entries of the cells S, added up
SumEntries(S) ==
    IF S = {} THEN 0
    ELSE LET cell == CHOOSE c \in S : TRUE
         IN  Entries(cell) + SumEntries(S \ {cell})

\* every cell holds as many blocks as it has entries: each block adds
\* 1/erp to (0,0) and 1/ez to (1,1), and the blocks of all cells are the
\* accepted layers
BlocksPerCell ==
    /\ \A cell \in GridCells :
          /\ Lhs(cell, 0, 0) = Num(Entries(cell) * InvErp * LFP)
          /\ Lhs(cell, 1, 1) = Num(Entries(cell) * LFP)
    /\ SumEntries(GridCells) = m_accepted_clusters

\* the layers of the event of this step that were accumulated in cell
AcceptedIn(cell) ==
    {k \in DOMAIN laser_run'.log :
        laser_run'.log[k].accepted = 1 /\ laser_run'.log[k].i = cell}

\* no entry count goes down, and a process_event adds to a cell one entry
\* for each layer it accepted with the index of that cell
EntriesStep ==
    \A cell \in GridCells :
        /\ m_matrix_container'.cells[cell].entries >= Entries(cell)
        /\ laser_run'.events = laser_run.events + 1
              => m_matrix_container'.cells[cell].entries
                     = Entries(cell) + Cardinality(AcceptedIn(cell))

\* C15: the grid is accumulate-only: across any sequence of process_event
\* calls no cell's entry count ever decreases, and each accepted layer
\* applies its nine add_to_lhs, three add_to_rhs and one add_to_entries to
\* one and the same cell, so that the entry count of a cell is the number
\* of normal-equation blocks added to it.
C15_AccumulateOnly == []BlocksPerCell /\ [][EntriesStep]_vars

\* two events left two blocks in one cell and one in another
C15_Witness ==
    /\ laser_run.events = MaxEvents
    /\ \E c1, c2 \in GridCells :
          c1 # c2 /\ Entries(c1) >= 2 /\ Entries(c2) >= 1

\* C29: after Init and any sequence of process_event calls on a grid that
\* started empty, the entry counts of all cells of the grid add up to
\* m_accepted_clusters.
C29_EntriesAreAccepted == SumEntries(GridCells) = m_accepted_clusters

\* after an event two layers are in the grid, and some associated hits
\* left no layer there
C29_Witness ==
    /\ laser_run.events >= 1
    /\ m_accepted_clusters >= 2
    /\ m_matched_hits > m_accepted_clusters
    /\ SumEntries(GridCells) = m_accepted_clusters
    /\ \E cell \in GridCells : Entries(cell) = 0
(***************************************************************************)
(* Claims about the loops and the track cuts of                            *)
(* SecondaryVertexFinder::process_event                                    *)
(***************************************************************************)
SvfIds == 1..Len(svf_event.track_map)

\* how many times the inner loop looked at (id1, id2)
PairCount(id1, id2) ==
    Cardinality({k \in 1..Len(svf_out.pairs) :
                    svf_out.pairs[k].id1 = id1 /\ svf_out.pairs[k].id2 = id2})

\* the vertex of the track is in the map and has tracks
HasGoodVertex(tr) ==
    /\ tr.vertex_id \in DOMAIN svf_event.vertex_map
    /\ svf_event.vertex_map[tr.vertex_id].size_tracks > 0

\* the track passes the cuts the outer loop applies to its track
PassesTrack1Cuts(id1) ==
    LET tr1 == svf_event.track_map[id1]
    IN  /\ HasGoodVertex(tr1)
        /\ ~(svf_event.cfg.require_mvtx /\ ~hasSiliconSeed(tr1))
        /\ ~TrackCutsSkip(tr1, get_dca(tr1, svf_event.vertex_map,
                                       svf_event.uninit_float),
                          svf_event.cfg)

\* no track is paired with itself, and no pair is looked at twice, in one
\* order or in both
PairsAtMostOnce ==
    /\ \A id1 \in SvfIds : PairCount(id1, id1) = 0
    /\ \A id1, id2 \in SvfIds :
          id1 # id2 => PairCount(id1, id2) + PairCount(id2, id1) <= 1

\* C11: in one process_event call every unordered pair of distinct tracks
\* is examined at most once (no track with itself, never both (a,b) and
\* (b,a)), and every pair whose first track, in map order, passes the
\* track-1 cuts is examined exactly once.
C11_AsClaimed ==
    svf_out.done =>
        /\ PairsAtMostOnce
        /\ \A id1, id2 \in SvfIds :
              (id1 < id2 /\ PassesTrack1Cuts(id1)) => PairCount(id1, id2) = 1

\* the part of C11 that every call keeps, and the other part for the
\* calls that return
C11_WhenReturned ==
    svf_out.done =>
        /\ PairsAtMostOnce
        /\ ~svf_out.crashed =>
              \A id1, id2 \in SvfIds :
                 (id1 < id2 /\ PassesTrack1Cuts(id1)) => PairCount(id1, id2) = 1

CandidatesHaveVertex ==
    \A c \in SvfRows :
        /\ HasGoodVertex(svf_event.track_map[c.id1])
        /\ HasGoodVertex(svf_event.track_map[c.id2])

\* no null vertex pointer is dereferenced and the event runs to its end
NoNullVertexUsed == svf_out.null_derefs = 0 /\ ~svf_out.crashed

\* C17: a track takes part in an emitted candidate, as either member of
\* the pair, only if its vertex id resolves to an existing vertex that has
\* at least one associated track; a track whose vertex is missing or has
\* no tracks is skipped without a null dereference and without aborting
\* the event.
C17_AsClaimed == CandidatesHaveVertex /\ NoNullVertexUsed

\* the seed of the track has too few clusters for the fits
TooFewClusters(tr) == tr.nclus < 3 \/ tr.nclus_noINTT < 3

\* the pairs that got as far as findTwoTrackIntersection with a track of
\* too few clusters
PairsWithTooFew ==
    {k \in 1..Len(svf_out.pairs) :
        /\ svf_out.pairs[k].npoints >= 0
        /\ \/ TooFewClusters(svf_event.track_map[svf_out.pairs[k].id1])
           \/ TooFewClusters(svf_event.track_map[svf_out.pairs[k].id2])}

\* such a pair has no intersection and no candidate, and fitClusters
\* hands back no parameters and fits nothing below 3 points
RejectsTooFew ==
    /\ \A k \in PairsWithTooFew :
          svf_out.pairs[k].npoints = 0 /\ svf_out.pairs[k].nrows = 0
    /\ \A id \in SvfIds :
          LET tr   == svf_event.track_map[id]
              pars == fitClusters(tr, svf_event.cfg.verbosity)
          IN  TooFewClusters(tr) =>
                  /\ pars.size = 0
                  /\ pars.fitted = 0 \/ pars.fitted >= 3

\* C18: fitClusters returns an empty parameter vector, so that
\* findTwoTrackIntersection returns false and the pair yields no
\* candidate, whenever the seed has fewer than 3 usable clusters or fewer
\* than 3 non-INTT clusters, for every verbosity; the fits are never run
\* on fewer than 3 points.
C18_AsClaimed == svf_out.done => RejectsTooFew

\* what the code does do: the claim holds for Verbosity() > 0 only
C18_WhenVerbose ==
    (svf_out.done /\ svf_event.cfg.verbosity > 0) => RejectsTooFew

(***************************************************************************)
(* Claims about delta_phi and line_circle_intersection                     *)
(***************************************************************************)
\* value is in [-pi, pi)
InHalfOpenTurn(value) == -PiD <= value /\ value < PiD

\* value and phi are a whole number of turns apart
WholeTurnsApart(value, phi) ==
    \E n \in (-MaxTurns - 1)..(MaxTurns + 1) : value = phi + n * TwoPiD

MissesCircle(p, d, diameter) ==
    /\ Sq(d[1]) + Sq(d[2]) > 0
    /\ 4 * Sq(p[1] * d[2] - p[2] * d[1]) > (Sq(d[1]) + Sq(d[2])) * Sq(diameter)

\* the half of C13 that is about the sentinel: (-1,-1) whenever the line
\* does not meet the circle
SentinelWhenMissing ==
    (/\ geom_res.called = "line_circle_intersection"
     /\ MissesCircle(geom_args.p, geom_args.d, geom_args.diameter))
        => /\ geom_res.first = -LFP
           /\ geom_res.second = -LFP
           /\ ~geom_res.nan

\* C13 as stated: line_circle_intersection returns the pair (-1,-1)
\* whenever the line has no real intersection with the circle in the
\* transverse plane, and never returns a NaN or infinite parameter, also
\* for a direction with no transverse component (A = 0).
C13_AsClaimed ==
    /\ SentinelWhenMissing
    /\ geom_res.called = "line_circle_intersection" => ~geom_res.nan

(***************************************************************************)
(* Claims about missing nodes                                              *)
(***************************************************************************)
\* process_event of the laser module was called on a tree that lacks one
\* of its nodes
LaserNodeMissing ==
    /\ node_res.called = "process_event"
    /\ node_args.ev.nodes # LaserNodes

\* InitRun of the vertex finder was called on a tree that lacks one of its
\* nodes
SvfNodeMissing ==
    /\ node_res.called = "InitRun"
    /\ node_args.nodes # SvfNodeSet

\* the vertex finder's half of C19: InitRun returns ABORTEVENT and has
\* created neither recomass nor ntp
InitRunAborts ==
    SvfNodeMissing =>
        /\ node_res.ret = "ABORTEVENT"
        /\ ~node_res.recomass /\ ~node_res.ntp

\* the laser module's half of C19: process_event returns a code that is
\* not EVENT_OK, process_tracks is not called, no hit and no layer of a
\* track is looked at
ProcessEventAborts ==
    LaserNodeMissing =>
        /\ node_res.ret \notin {"none", "EVENT_OK"}
        /\ ~node_res.process_tracks_called
        /\ node_res.m_total_hits = 0 /\ node_res.layers = 0

\* C19: if a required input node (geometry, track map, hit map, vertex
\* map) is absent, the module reports it and processes no track and no
\* track pair for that event: the laser process_event returns a non-OK
\* code of load_nodes without calling process_tracks, and the vertex
\* finder's InitRun returns ABORTEVENT without creating its outputs.
C19_AsClaimed == ProcessEventAborts /\ InitRunAborts

(***************************************************************************)
(* Termination of process_event                                            *)
(***************************************************************************)
LoopDone == loop.pc = "done"

\* the number of pairs of n tracks
PairsOf(n) == (n * (n - 1)) \div 2

\* the iterations of every loop stay within the sizes of the collections,
\* and a while loop on phi takes a step a turn at most
IterationsBounded ==
    /\ loop.module = "TpcDirectLaserReconstruction" =>
         /\ loop.iters.tracks <= Len(loop.ev.tracks)
         /\ loop.iters.hits <= Len(loop.ev.tracks) * Len(loop.ev.hits)
         /\ loop.iters.layers <= Len(loop.ev.tracks) * Len(loop.ev.hits)
         /\ loop.wrap <= MaxTurns + 1
    /\ loop.module = "SecondaryVertexFinder" =>
         /\ loop.iters.tracks <= Len(loop.ev.track_map)
         /\ loop.iters.pairs <= PairsOf(Len(loop.ev.track_map))

\* a while loop on phi is left with phi in [m_phimin, m_phimax)
WrappedWhenLeft ==
    loop.module = "TpcDirectLaserReconstruction"
    /\ loop.pc \in {"Locate", "cell"}
    => loop.phi >= m_phimin /\ loop.phi < m_phimax

\* taken a loop iteration at a time, process_event ends with what
\* process_tracks and process_event give as a whole
LoopsAgree ==
    LoopDone =>
      /\ loop.module = "TpcDirectLaserReconstruction" =>
           loop.st = process_tracks(LoopLaserCfg, loop.ev,
                        [LaserMembers EXCEPT
                           !.mc = container_set_grid_dimensions(
                                      LoopLaserCfg.phibins, LoopLaserCfg.rbins,
                                      LoopLaserCfg.zbins)])
      /\ loop.module = "SecondaryVertexFinder" =>
           loop.out = OuterLoop(loop.ev, 1, SvfOutNone)

LoopSvfAllPairs ==
    /\ LoopDone
    /\ loop.module = "SecondaryVertexFinder"
    /\ loop.iters.pairs = PairsOf(Len(loop.ev.track_map))
    /\ Len(loop.ev.track_map) = MaxTracks

(***************************************************************************)
(* Claims about the impact parameter cuts and the intersections of         *)
(* SecondaryVertexFinder::process_event                                    *)
(***************************************************************************)
\* the impact parameters dca are numbers that get_dca computed, and both
\* are above the cuts in magnitude
DcaExceedsCuts(dca) ==
    /\ ~dca.xyNan /\ ~dca.zUninit
    /\ Abs(dca.dca3dxy) > svf_event.cfg.track_dcaxy_cut * FP
    /\ Abs(dca.dca3dz) > svf_event.cfg.track_dcaz_cut * FP

\* the impact parameters kept with the candidate are those get_dca gives
\* for its tracks
DcaOfItsTracks(c) ==
    /\ c.dca3d1 = get_dca(svf_event.track_map[c.id1], svf_event.vertex_map,
                          svf_event.uninit_float)
    /\ c.dca3d2 = get_dca(svf_event.track_map[c.id2], svf_event.vertex_map,
                          svf_event.uninit_float)

\* C25 (as claimed): every candidate emitted by process_event has, for
\* both tracks, a transverse impact parameter above _track_dcaxy_cut and a
\* longitudinal one above _track_dcaz_cut in magnitude, each computed by
\* get_dca for that track.
C25_AsClaimed ==
    \A c \in SvfRows :
        /\ DcaOfItsTracks(c)
        /\ DcaExceedsCuts(c.dca3d1)
        /\ DcaExceedsCuts(c.dca3d2)

\* what the code keeps: no candidate has a computed impact parameter
\* below its cut
C25_NotBelow ==
    \A c \in SvfRows :
        /\ DcaOfItsTracks(c)
        /\ \A dca \in {c.dca3d1, c.dca3d2} :
              /\ ~dca.xyNan =>
                    Abs(dca.dca3dxy) >= svf_event.cfg.track_dcaxy_cut * FP
              /\ ~dca.zUninit =>
                    Abs(dca.dca3dz) >= svf_event.cfg.track_dcaz_cut * FP

\* the pairs the inner loop looked at whose second track passes the seed
\* requirement, the charge, the quality and the cluster cuts: what is
\* left to skip it are its impact parameters
PairsUpToDca ==
    {k \in 1..Len(svf_out.pairs) :
        LET tr1 == svf_event.track_map[svf_out.pairs[k].id1]
            tr2 == svf_event.track_map[svf_out.pairs[k].id2]
        IN  /\ ~(svf_event.cfg.require_mvtx /\ ~hasSiliconSeed(tr2))
            /\ tr2.charge # tr1.charge
            /\ tr2.quality <= svf_event.cfg.qual_cut
            /\ tr2.ntpc >= 20}

\* the impact parameters of the second track of the pair k
Dca2(k) ==
    get_dca(svf_event.track_map[svf_out.pairs[k].id2], svf_event.vertex_map,
            svf_event.uninit_float)

\* the second track of the pair k was skipped before the intersections
Skipped2(k) == svf_out.pairs[k].npoints = -1

\* C26 (as claimed): a track is skipped at the "get_dca returned NAN"
\* check if and only if get_dca left dca3dxy NaN; a track with a computed
\* impact parameter, exactly 0 included, is not skipped by that check, and
\* a track with a NaN dca never reaches the pair processing with a dca3dz
\* that was not written.
C26_AsClaimed ==
    svf_out.done =>
        /\ \A id \in SvfIds :
              LET dca == get_dca(svf_event.track_map[id], svf_event.vertex_map,
                                 svf_event.uninit_float)
              IN  DcaCheckSkips(dca) <=> dca.xyNan
        /\ \A k \in PairsUpToDca :
              /\ Dca2(k).xyNan => Skipped2(k)
              /\ (~Dca2(k).xyNan /\ ~BelowTrackDcaCuts(Dca2(k), svf_event.cfg))
                    => ~Skipped2(k)

\* what the code keeps: a second track whose impact parameters were
\* computed and are not below the cuts goes on to the intersections
C26_ComputedGoesOn ==
    svf_out.done =>
        \A k \in PairsUpToDca :
            (~Dca2(k).xyNan /\ ~BelowTrackDcaCuts(Dca2(k), svf_event.cfg))
                => ~Skipped2(k)

\* C27 (as claimed): for every track pair the candidates emitted are at
\* most as many as the intersection points circle_circle_intersection
\* returned (0, 1 or 2): the second slot of intersection[] is not
\* processed when one point was returned.
C27_AsClaimed ==
    \A k \in 1..Len(svf_out.pairs) :
        svf_out.pairs[k].npoints >= 0
            => svf_out.pairs[k].nrows <= svf_out.pairs[k].npoints

\* what the code keeps: two candidates a pair at most, none when
\* findTwoTrackIntersection fails
C27_AtMostTwo ==
    \A k \in 1..Len(svf_out.pairs) :
        /\ svf_out.pairs[k].nrows <= 2
        /\ svf_out.pairs[k].npoints <= 0 => svf_out.pairs[k].nrows = 0

(***************************************************************************)
(* Claims about process_track: the association of the hits and the layer   *)
(* loop                                                                    *)
(***************************************************************************)
TrkIds == DOMAIN trk_args.tracks

TrkHitIds == DOMAIN trk_args.hits

\* the log of the layer loop, as a set of its positions
TrkLog == DOMAIN trk_res.st.log

\* the distance of closest approach of the hit to the line of the track is
\* a number, and it is m_max_dca at most
DcaWithin(track, hit) ==
    LET oc == HitOc(hit, track.origin)
        d  == track.direction
    IN  /\ Dot(d, d) # 0
        /\ Dot(oc, oc) * Dot(d, d) - Sq(Dot(d, oc))
              <= Sq(trk_args.cfg.m_max_dca * LFP) * Dot(d, d)

\* the hits within m_max_dca of the track k
HitsWithin(k) ==
    {h \in TrkHitIds : DcaWithin(trk_args.tracks[k], trk_args.hits[h])}

\* the tracks S are associated with no more hits than are within m_max_dca
\* of them, and have layers in the layer loop only where such a hit is
AssociatedOnlyWithin(S) ==
    /\ \A k \in S :
          trk_res.alone[k].m_matched_hits <= Cardinality(HitsWithin(k))
    /\ \A e \in TrkLog :
          trk_res.st.log[e].trkid \in S =>
              \E h \in HitsWithin(trk_res.st.log[e].trkid) :
                  trk_args.hits[h].layer = trk_res.st.log[e].layer

\* C21 (as claimed): in process_track a hit is associated with the track
\* (counted in m_matched_hits, inserted in the per-layer map) only if its
\* distance of closest approach to the line of the track is m_max_dca at
\* most; a hit whose distance cannot be computed, the direction being of
\* length zero, is not associated.
C21_AsClaimed == trk_res.called => AssociatedOnlyWithin(TrkIds)

\* what the code keeps: the claim for the tracks that have a direction
C21_WhenDirected ==
    trk_res.called =>
        AssociatedOnlyWithin({k \in TrkIds :
            trk_args.tracks[k].direction # <<0, 0, 0>>})

\* the two roots line_circle_intersection gives for the track k on the
\* circle of the given diameter
RootsOn(k, diameter) ==
    line_circle_intersection(trk_args.tracks[k].origin,
                             trk_args.tracks[k].direction, diameter)

\* the three diameters of the layer l: outer, inner, centre
DiametersOf(l) ==
    {2 * LaserGeom[l].radius + LaserGeom[l].thickness,
     2 * LaserGeom[l].radius - LaserGeom[l].thickness,
     2 * LaserGeom[l].radius}

\* one of the two roots is a number and not negative
HasRoot(r) == ~r.nan /\ (r.first >= 0 \/ r.second >= 0)

\* the smallest of the roots that are not negative
SmallestRoot(r) ==
    IF r.first >= 0 /\ r.second >= 0
    THEN (IF r.second < r.first THEN r.second ELSE r.first)
    ELSE IF r.first >= 0 THEN r.first ELSE r.second

\* the layer loop ended the iteration at one of its tests on the roots
Punted(e) == trk_res.st.log[e].ended \in {"outer", "inner", "center"}

\* for the iterations S of the layer loop: t is the smallest root on the
\* centre circle that is not negative; the iteration is ended at the
\* roots only if a circle has no such root; no layer is accumulated
\* without such a root on each circle
SmallestRootTaken(S) ==
    \A e \in S :
        LET k == trk_res.st.log[e].trkid
            l == trk_res.st.log[e].layer
        IN  /\ (\A dm \in DiametersOf(l) : HasRoot(RootsOn(k, dm)))
                  => /\ ~Punted(e)
                     /\ trk_res.t[k][l].t
                           = SmallestRoot(RootsOn(k, 2 * LaserGeom[l].radius))
            /\ (\E dm \in DiametersOf(l) : ~HasRoot(RootsOn(k, dm)))
                  => trk_res.st.log[e].accepted = 0

\* C23 (as claimed): for each radius of a layer (outer, inner, centre)
\* process_track takes as intersection parameter the smallest of the two
\* roots of line_circle_intersection that is not negative, also when a
\* root is exactly 0 (the origin of the track on the circle), and skips
\* the layer when there is no such root.
C23_AsClaimed == trk_res.called => SmallestRootTaken(TrkLog)

\* what the code keeps: the claim for the layers none of whose circles
\* the origin of the track is on
C23_OffTheCircles ==
    trk_res.called =>
        SmallestRootTaken({e \in TrkLog :
            \A dm \in DiametersOf(trk_res.st.log[e].layer) :
                LET r == RootsOn(trk_res.st.log[e].trkid, dm)
                IN  r.nan \/ (r.first # 0 /\ r.second # 0)})

(***************************************************************************)
(* The centroid of a layer                                                 *)
(***************************************************************************)
RECURSIVE SumOf(_, _)
\* the sum of the values of f over the set S
SumOf(f, S) ==
    IF S = {} THEN 0
    ELSE LET h == CHOOSE x \in S : TRUE IN f[h] + SumOf(f, S \ {h})

\* the hits the hit loop of track k puts in its per-layer map
Associated(k) ==
    {h \in TrkHitIds :
        ~DcaAbove(HitOc(trk_args.hits[h], trk_args.tracks[k].origin),
                  trk_args.tracks[k].direction, trk_args.cfg.m_max_dca)}

\* the projection of track k on the centre circle of layer l
TrkProjection(k, l) ==
    Projection(trk_args.tracks[k].origin, trk_args.tracks[k].direction,
               trk_res.t[k][l])

\* the hits of layer l retained for the centroid of track k: those no
\* farther in z from the projection than m_max_zrange
Retained(k, l) ==
    {h \in Associated(k) :
        /\ trk_args.hits[h].layer = l
        /\ Abs(trk_args.hits[h].z - TrkProjection(k, l).z)
              <= trk_args.cfg.m_max_zrange}

\* the hits of layer l of track k that the cut in z excludes
Excluded(k, l) ==
    {h \in Associated(k) : trk_args.hits[h].layer = l} \ Retained(k, l)

\* max - min of the z of the hits S (S not empty)
ZSpan(S) ==
    LET zs == {trk_args.hits[h].z : h \in S}
    IN  (CHOOSE z \in zs : \A y \in zs : y <= z)
          - (CHOOSE z \in zs : \A y \in zs : z <= y)

\* the weight of a hit: its adc less the pedestal
Weight == [h \in TrkHitIds |-> trk_args.hits[h].adc - trk_args.cfg.m_pedestal]

\* the weighted means of x and y over the hits S
MeanX(S) ==
    Coord(SumOf([h \in TrkHitIds |-> trk_args.hits[h].x * Weight[h]], S),
          SumOf(Weight, S), LFP)

MeanY(S) ==
    Coord(SumOf([h \in TrkHitIds |-> trk_args.hits[h].y * Weight[h]], S),
          SumOf(Weight, S), LFP)

\* the iteration e of the layer loop came to its loop over the hits
ReachedCentroid(e) ==
    /\ ~Punted(e)
    /\ ~trk_res.t[trk_res.st.log[e].trkid][trk_res.st.log[e].layer].nan

\* the iteration e of the layer loop left the grid as it was
NoAccumulation(e) ==
    /\ trk_res.st.log[e].accepted = 0
    /\ trk_res.st.log[e].adds = 0
    /\ ~trk_res.st.log[e].changed

\* C22: for each layer of a track, the hits farther in z from the
\* projection than m_max_zrange are excluded from the centroid; the layer
\* is discarded at the test on the z range exactly when max - min of the z
\* of the retained hits exceeds m_max_zrange, and then it makes no
\* accumulation; so every accumulated centroid is the weighted mean of
\* retained hits only, whose z span m_max_zrange at most.
C22_ZCuts ==
    trk_res.called =>
        \A e \in TrkLog :
            LET en == trk_res.st.log[e]
                R  == Retained(en.trkid, en.layer)
            IN  /\ en.accepted = 1 =>
                      /\ ReachedCentroid(e)
                      /\ R # {}
                      /\ ZSpan(R) <= trk_args.cfg.m_max_zrange
                      /\ en.centroid.x = MeanX(R)
                      /\ en.centroid.y = MeanY(R)
                /\ ReachedCentroid(e) =>
                      (en.ended = "zrange"
                          <=> R # {} /\ ZSpan(R) > trk_args.cfg.m_max_zrange)
                /\ en.ended = "zrange" => NoAccumulation(e)

\* a layer is accumulated from one hit while another hit of the layer,
\* on the far side and 3 cm away in z, is excluded
C22_Witness ==
    /\ trk_res.called
    /\ \E e \in TrkLog :
          /\ trk_res.st.log[e].accepted = 1
          /\ trk_res.st.log[e].changed
          /\ Excluded(trk_res.st.log[e].trkid, trk_res.st.log[e].layer) # {}

\* a layer is discarded for its z range
C22_Discarded ==
    /\ trk_res.called
    /\ \E e \in TrkLog : trk_res.st.log[e].ended = "zrange"

(***************************************************************************)
(* Layers without a centroid or without residuals                          *)
(***************************************************************************)
\* the retained hits of the iteration e weigh nothing in total: there is
\* none, or their adc less the pedestal add up to 0
ZeroWeight(e) ==
    /\ ReachedCentroid(e)
    /\ trk_res.st.log[e].ended # "zrange"
    /\ SumOf(Weight, Retained(trk_res.st.log[e].trkid,
                              trk_res.st.log[e].layer)) = 0

\* in the iteration e one of talpha, tbeta, drp and dz is not a number
NotANumber(e) ==
    LET en   == trk_res.st.log[e]
        d    == trk_args.tracks[en.trkid].direction
        proj == TrkProjection(en.trkid, en.layer)
    IN  /\ en.have
        /\ \/ talpha(d, proj).nan
           \/ tbeta(d, proj).nan
           \/ drp(en.centroid, proj).nan
           \/ dz(en.centroid, proj).nan

\* the layers of the hits associated with track k
LayersOf(k) == {trk_args.hits[h].layer : h \in Associated(k)}

\* the layers track k has an iteration of the layer loop for
LayersDone(k) ==
    {trk_res.st.log[e].layer : e \in {x \in TrkLog : trk_res.st.log[x].trkid = k}}

\* C24: a layer whose retained hits weigh nothing in total (all hits
\* rejected by the cut in z, or adc - pedestal adding up to 0), or for
\* which talpha, tbeta, drp or dz is not a number, is skipped: nothing is
\* added to the grid, m_accepted_clusters is not incremented (it counts
\* the other iterations only), and the layer loop goes on to the other
\* layers of the track.
C24_SkippedLayers ==
    trk_res.called =>
        /\ \A e \in TrkLog :
              ZeroWeight(e) \/ NotANumber(e) => NoAccumulation(e)
        /\ trk_res.st.m_accepted_clusters
              = Cardinality({e \in TrkLog :
                    ~ZeroWeight(e) /\ ~NotANumber(e)
                    /\ trk_res.st.log[e].accepted = 1})
        /\ \A k \in TrkIds :
              LayersDone(k) # {} => LayersDone(k) = LayersOf(k)

\* layer 1 of a track is skipped for its weight of zero and layer 2 of the
\* same track is then accumulated
C24_Witness ==
    /\ trk_res.called
    /\ \E e1, e2 \in TrkLog :
          /\ e1 < e2
          /\ trk_res.st.log[e1].trkid = trk_res.st.log[e2].trkid
          /\ ZeroWeight(e1)
          /\ NoAccumulation(e1)
          /\ trk_res.st.log[e2].accepted = 1
          /\ trk_res.st.log[e2].changed

\* a centroid with infinite coordinates: the weights add up to 0, the
\* weighted coordinates do not
C24_Infinite ==
    /\ trk_res.called
    /\ \E e \in TrkLog :
          /\ ZeroWeight(e)
          /\ trk_res.st.log[e].centroid.x.k = "inf"
          /\ trk_res.st.log[e].centroid.y.k = "inf"
          /\ trk_res.st.log[e].centroid.z.k = "inf"

(***************************************************************************)
(* The module of a hit                                                     *)
(***************************************************************************)
\* the module Locate gives for the hit h, as the hit loop calls it
LocateOf(h) ==
    Locate(ToFloat(FpToR(get_r(trk_args.hits[h].x * LFP,
                               trk_args.hits[h].y * LFP))),
           WrapDown(WrapUp(ToFloat(trk_args.hits[h].phi))),
           ToFloat(trk_args.hits[h].z))

\* the hits associated with a track of the event
AllAssociated == UNION {Associated(k) : k \in TrkIds}

\* C28 (as claimed): Locate(r, phi, z) returns a module id in 1..72 for
\* every associated hit position, so the index locateid-1 of the
\* increment of GEM_Mod_Arr in process_track is always within 0..71.
C28_AsClaimed ==
    trk_res.called =>
        /\ \A h \in AllAssociated : LocateOf(h) \in 1..72
        /\ trk_res.st.gem_oob = 0

\* what the code keeps: the module id is 72 at most, and not negative
C28_UpTo72 ==
    trk_res.called => \A h \in TrkHitIds : LocateOf(h) \in 0..72

\* the increment of GEM_Mod_Arr[-1] for the hit of layer 1 at r = 30,
\* phi = 0, z = 0
C28_OutOfArray ==
    /\ trk_res.called
    /\ trk_res.st.gem_oob > 0
    /\ \E h \in AllAssociated :
          /\ LocateOf(h) = 0
          /\ trk_args.hits[h].x = 30 /\ trk_args.hits[h].y = 0
          /\ trk_args.hits[h].z = 0

(***************************************************************************)
(* The tracks of an event in any order, and one by one                     *)
(***************************************************************************)
RECURSIVE NSumOf(_, _)
\* the sum of the values of f over the set S, as the grid adds them
NSumOf(f, S) ==
    IF S = {} THEN Num(0)
    ELSE LET k == CHOOSE x \in S : TRUE IN NAdd(f[k], NSumOf(f, S \ {k}))

\* the cells of the grid of the module
TrkCells == DOMAIN trk_res.st.mc.cells

\* processing some track of the event alone ends in a crash
AnyCrash == \E k \in TrkIds : trk_res.alone[k].crashed

\* what process_tracks leaves is, counter by counter and cell by cell,
\* the sum of what it leaves for each track alone
SumOfAlone(left) ==
    /\ left.m_total_hits
         = SumOf([k \in TrkIds |-> trk_res.alone[k].m_total_hits], TrkIds)
    /\ left.m_matched_hits
         = SumOf([k \in TrkIds |-> trk_res.alone[k].m_matched_hits], TrkIds)
    /\ left.m_accepted_clusters
         = SumOf([k \in TrkIds |-> trk_res.alone[k].m_accepted_clusters],
                 TrkIds)
    /\ \A c \in TrkCells :
          /\ left.mc.cells[c].entries
               = SumOf([k \in TrkIds |-> trk_res.alone[k].mc.cells[c].entries],
                       TrkIds)
          /\ \A j \in 0..8 :
                left.mc.cells[c].lhs[j]
                  = NSumOf([k \in TrkIds |-> trk_res.alone[k].mc.cells[c].lhs[j]],
                           TrkIds)
          /\ \A j \in 0..2 :
                left.mc.cells[c].rhs[j]
                  = NSumOf([k \in TrkIds |-> trk_res.alone[k].mc.cells[c].rhs[j]],
                           TrkIds)

\* C30: the processing of the laser tracks keeps no state from one track
\* to the next: for given hits, the grid (M, b and the entry count of
\* every cell) and the three counters that process_tracks leaves are the
\* same for every order of the tracks, and are the cell-wise sums of what
\* it leaves for each track alone on an empty grid.  A run ends in a crash
\* in every order, or in none: exactly when one of the tracks alone does.
C30_Stateless ==
    trk_res.called =>
        /\ \A p \in DOMAIN trk_res.orders :
              trk_res.orders[p].crashed = AnyCrash
        /\ trk_res.st.crashed = AnyCrash
        /\ ~AnyCrash =>
              /\ \A p \in DOMAIN trk_res.orders :
                    trk_res.orders[p] = TrkLeft(trk_res.st)
              /\ SumOfAlone(TrkLeft(trk_res.st))

\* two different tracks that each leave a layer in the same cell of the
\* grid, with different sums
C30_Witness ==
    /\ trk_res.called
    /\ ~AnyCrash
    /\ \E k1, k2 \in TrkIds : \E c \in TrkCells :
          /\ trk_args.tracks[k1] # trk_args.tracks[k2]
          /\ trk_res.alone[k1].mc.cells[c].entries >= 1
          /\ trk_res.alone[k2].mc.cells[c].entries >= 1
          /\ trk_res.alone[k1].mc.cells[c] # trk_res.alone[k2].mc.cells[c]
          /\ trk_res.st.mc.cells[c].entries >= 2

\* a run that ends in a crash in both orders of its two tracks
C30_Crash ==
    /\ trk_res.called
    /\ AnyCrash
    /\ Len(trk_args.tracks) = 2
    /\ \E k \in TrkIds : ~trk_res.alone[k].crashed
====
